---------------------------- MODULE Spec2Model ----------------------------
(***************************************************************************)
(* Rise Gym QR codes: the payload encoders (src/src/core/qr_generator.py,  *)
(* qr_exact_generator.py, qr_perfect_generator.py, arm64_qr_generator.py), *)
(* the payload parser (decode_all_qr_codes.py) and the parameter search    *)
(* with its raster comparison (qr_exact_matcher.py, qr_perfect_match.py).  *)
(*                                                                         *)
(* Strings are sequences of one-character strings, so that formatting      *)
(* (strftime, f"{x:02d}") and slicing/parsing (s[a:b], int(s)) are         *)
(* computed and not assumed.                                               *)
(***************************************************************************)
EXTENDS Integers, Sequences, FiniteSets, Bags, TLC

VARIABLES
    pc,          \* position of the run: "input", "encoded", "decoded", "start",
                 \* "sweep", "done", "reported", "raised"
    ts,          \* the datetime handed to an encoder
    encoder,     \* which encoder produced qr_data
    qr_data,     \* the payload string
    parsed,      \* result of parse_qr_content (None or the field record)
    reference,   \* the reference raster handed to the search, by what produced it
    sweep,       \* the routine sweeping: "none", "exact", "ec", "validate"
    structure,   \* result of analyze_qr_structure, or the parameters the level sweep fixed
    grid,        \* the sequence itertools.product yields
    idx,         \* number of grid combinations consumed so far
    best_match,  \* best_match of the sweep (None or a record)
    evaluated,   \* the combinations rendered and compared so far, with their scores
    skipped,     \* the combinations whose rendering raised
    report,      \* what the caller reports about the result
    exc          \* the exception that ended the run, "none" if none

vars == <<pc, ts, encoder, qr_data, parsed, reference, sweep, structure, grid, idx,
          best_match, evaluated, skipped, report, exc>>

None == [none |-> TRUE]

-----------------------------------------------------------------------------
(* Bounded input sets.                                                     *)

Years == {2024, 2025}
Months == {1, 3, 6, 11, 12}
Days == {1, 2, 9, 10, 29, 30, 31}
Hours == 0..23
Minutes == {0, 48, 59}
\* None models a naive datetime; an integer is the UTC offset, in hours, of an aware one.
UtcOffsets == {0, 9}

-----------------------------------------------------------------------------
(* Characters, formatting and parsing.                                     *)

DigitChars == <<"0", "1", "2", "3", "4", "5", "6", "7", "8", "9">>

DigitSet == {DigitChars[i] : i \in 1..10}

\* str(d) for one decimal digit d
DigitChar(d) == DigitChars[d + 1]

\* the decimal digit a character stands for
DigitValue(c) == CHOOSE d \in 0..9 : DigitChars[d + 1] = c

\* f"{n:02d}" and strftime's %m, %d, %H, %M, for 0 <= n <= 99
Pad2(n) == <<DigitChar(n \div 10), DigitChar(n % 10)>>

\* strftime's %Y for a four-digit year
Pad4(y) == <<DigitChar(y \div 1000), DigitChar((y \div 100) % 10),
             DigitChar((y \div 10) % 10), DigitChar(y % 10)>>

\* int(s) for a string of decimal digits
RECURSIVE IntOf(_)
IntOf(s) == IF s = <<>> THEN 0
            ELSE 10 * IntOf(SubSeq(s, 1, Len(s) - 1)) + DigitValue(s[Len(s)])

\* Python's s[a:b], 0-based and end-exclusive, clipped to the string
Slice(s, a, b) == SubSeq(s, a + 1, IF b > Len(s) THEN Len(s) ELSE b)

-----------------------------------------------------------------------------
(* Calendar arithmetic behind datetime and pytz.                           *)

IsLeap(y) == (y % 4 = 0 /\ y % 100 # 0) \/ y % 400 = 0

DaysInMonth(y, m) ==
    IF m = 2 THEN (IF IsLeap(y) THEN 29 ELSE 28)
    ELSE IF m \in {4, 6, 9, 11} THEN 30 ELSE 31

ValidDate(y, m, d) == m \in 1..12 /\ d >= 1 /\ d <= DaysInMonth(y, m)

\* day of the week, 0 = Sunday
DayOfWeek(y, m, d) ==
    LET t == <<0, 3, 2, 5, 0, 3, 5, 1, 4, 6, 2, 4>>
        yy == IF m < 3 THEN y - 1 ELSE y
    IN (yy + yy \div 4 - yy \div 100 + yy \div 400 + t[m] + d) % 7

PrevDay(dt) ==
    IF dt.day > 1 THEN [dt EXCEPT !.day = dt.day - 1]
    ELSE IF dt.month > 1
         THEN [dt EXCEPT !.month = dt.month - 1,
                         !.day = DaysInMonth(dt.year, dt.month - 1)]
         ELSE [dt EXCEPT !.year = dt.year - 1, !.month = 12, !.day = 31]

NextDay(dt) ==
    IF dt.day < DaysInMonth(dt.year, dt.month) THEN [dt EXCEPT !.day = dt.day + 1]
    ELSE IF dt.month < 12
         THEN [dt EXCEPT !.month = dt.month + 1, !.day = 1]
         ELSE [dt EXCEPT !.year = dt.year + 1, !.month = 1, !.day = 1]

\* dt + timedelta(hours=k), for -24 < k < 24
ShiftHours(dt, k) ==
    LET h == dt.hour + k
    IN IF h < 0 THEN [PrevDay(dt) EXCEPT !.hour = h + 24]
       ELSE IF h >= 24 THEN [NextDay(dt) EXCEPT !.hour = h - 24]
       ELSE [dt EXCEPT !.hour = h]

\* order of two wall-clock readings of the same zone
Before(a, b) ==
    LET ka == <<a.year, a.month, a.day, a.hour, a.minute>>
        kb == <<b.year, b.month, b.day, b.hour, b.minute>>
        first == CHOOSE i \in 1..6 : (i = 6 \/ ka[i] # kb[i])
                                     /\ \A j \in 1..(i - 1) : ka[j] = kb[j]
    IN first < 6 /\ ka[first] < kb[first]

\* America/New_York since 2007: daylight time from the second Sunday of March,
\* 07:00 UTC, to the first Sunday of November, 06:00 UTC
EasternUtcOffset(utc) ==
    LET y == utc.year
        start == CHOOSE d \in 8..14 : DayOfWeek(y, 3, d) = 0
        stop == CHOOSE d \in 1..7 : DayOfWeek(y, 11, d) = 0
        dstStart == [year |-> y, month |-> 3, day |-> start, hour |-> 7, minute |-> 0]
        dstEnd == [year |-> y, month |-> 11, day |-> stop, hour |-> 6, minute |-> 0]
    IN IF ~Before(utc, dstStart) /\ Before(utc, dstEnd) THEN 0 - 4 ELSE 0 - 5

\* generate_qr_data's first step: timezone.localize(dt) keeps the fields of a
\* naive dt, dt.astimezone(timezone) re-expresses an aware one in Eastern time
ToEastern(dt) ==
    IF dt.tzinfo = None THEN dt
    ELSE LET utc == ShiftHours(dt, 0 - dt.tzinfo.utcoffset)
         IN [ShiftHours(utc, EasternUtcOffset(utc)) EXCEPT
                !.tzinfo = [utcoffset |-> EasternUtcOffset(utc)]]

\* dt.strftime("%m%d%Y")
StrfMDY(dt) == Pad2(dt.month) \o Pad2(dt.day) \o Pad4(dt.year)

\* dt.strftime("%Y%m%d%H%M"), the capture file's stem
StrfStem(dt) == Pad4(dt.year) \o Pad2(dt.month) \o Pad2(dt.day)
                \o Pad2(dt.hour) \o Pad2(dt.minute)

\* datetime.strptime(s[:12], "%Y%m%d%H%M") on a well-formed stem
StrpStem(s) ==
    [year |-> IntOf(Slice(s, 0, 4)), month |-> IntOf(Slice(s, 4, 6)),
     day |-> IntOf(Slice(s, 6, 8)), hour |-> IntOf(Slice(s, 8, 10)),
     minute |-> IntOf(Slice(s, 10, 12)), tzinfo |-> None]

-----------------------------------------------------------------------------
(* The payload encoders.                                                   *)

FacilityCode == <<"9", "2", "6", "8">>

\* the payloads of 2025-06-01 00:00 and 2025-06-01 07:48
Payload_0000 == <<"9", "2", "6", "8", "0", "6", "0", "1", "2", "0", "2", "5",
                  "0", "0", "0", "0", "0", "1">>

Payload_0748 == <<"9", "2", "6", "8", "0", "6", "0", "1", "2", "0", "2", "5",
                  "0", "6", "0", "0", "0", "0">>

\* generate_qr_data with the hour written in place of the slot hour
generate_qr_data_hour(dt0) ==
    LET dt == ToEastern(dt0)
        seconds == IF (dt.hour \div 2) * 2 = 0 THEN <<"0", "1">> ELSE <<"0", "0">>
    IN FacilityCode \o StrfMDY(dt) \o Pad2(dt.hour) \o <<"0", "0">> \o seconds

\* RiseGymQRGenerator.generate_qr_data (src/core/qr_generator.py)
generate_qr_data(dt0) ==
    LET dt == ToEastern(dt0)
        facility == FacilityCode
        date_str == StrfMDY(dt)
        slot_hour == (dt.hour \div 2) * 2
        seconds == IF slot_hour = 0 THEN <<"0", "1">> ELSE <<"0", "0">>
        time_str == Pad2(slot_hour) \o <<"0", "0">> \o seconds
    IN facility \o date_str \o time_str

\* ExactRiseGymQRGenerator.determine_qr_data; timestamp is a stem string or a datetime
determine_qr_data(timestamp, isString) ==
    LET s == StrfStem(timestamp)
        year == IF isString THEN Slice(s, 0, 4) ELSE Pad4(timestamp.year)
        month == IF isString THEN Slice(s, 4, 6) ELSE Pad2(timestamp.month)
        day == IF isString THEN Slice(s, 6, 8) ELSE Pad2(timestamp.day)
        hour == IF isString THEN IntOf(Slice(s, 8, 10)) ELSE timestamp.hour
        facility == FacilityCode
        date_part == month \o day \o year
        slot_hour == (hour \div 2) * 2
        seconds == IF slot_hour = 0 THEN <<"0", "1">> ELSE <<"0", "0">>
        time_part == Pad2(slot_hour) \o <<"0", "0">> \o seconds
    IN facility \o date_part \o time_part

\* RiseGymQRGenerator.generate_qr_data (qr_perfect_generator.py)
perfect_generate_qr_data(timestamp0, isString) ==
    LET timestamp == IF isString THEN StrpStem(StrfStem(timestamp0)) ELSE timestamp0
        month == Pad2(timestamp.month)
        day == Pad2(timestamp.day)
        year == Pad4(timestamp.year)
        hour == timestamp.hour
        date_str == month \o day \o year
        slot_hour == (hour \div 2) * 2
        suffix == IF 0 <= hour /\ hour <= 1 THEN <<"0", "0", "0", "1">>
                  ELSE <<"0", "0", "0", "0">>
    IN FacilityCode \o date_str \o Pad2(slot_hour) \o suffix

\* calculate_time_component with the suffix test narrowed to hour 0
calculate_time_component_midnight(timestamp, encoding_type) ==
    IF encoding_type = "2hour_slots"
    THEN Pad2((timestamp.hour \div 2) * 2)
         \o (IF timestamp.hour = 0 THEN <<"0", "0", "0", "1">> ELSE <<"0", "0", "0", "0">>)
    ELSE Pad2(timestamp.hour) \o <<"0", "0", "0", "0">>

\* ARM64QRGenerator.calculate_time_component
calculate_time_component(timestamp, encoding_type) ==
    IF encoding_type = "2hour_slots"
    THEN LET slot_hour == (timestamp.hour \div 2) * 2
             suffix == IF timestamp.hour >= 0 /\ timestamp.hour <= 1
                       THEN <<"0", "0", "0", "1">> ELSE <<"0", "0", "0", "0">>
         IN Pad2(slot_hour) \o suffix
    ELSE Pad2(timestamp.hour) \o <<"0", "0", "0", "0">>

\* ARM64QRGenerator.generate_qr_data with the default facility and date format
arm64_generate_qr_data(timestamp, encoding_type) ==
    FacilityCode \o StrfMDY(timestamp) \o calculate_time_component(timestamp, encoding_type)

\* parse_qr_content with day and month taken from each other's columns
parse_qr_content_swapped(content) ==
    IF content = <<>> \/ Len(content) # 18 THEN None
    ELSE [facility |-> Slice(content, 0, 4),
          date |-> Slice(content, 6, 8) \o <<"/">> \o Slice(content, 4, 6)
                   \o <<"/">> \o Slice(content, 8, 12),
          time |-> Slice(content, 12, 14) \o <<":">> \o Slice(content, 14, 16)
                   \o <<":">> \o Slice(content, 16, 18),
          raw |-> content]

\* parse_qr_content (decode_all_qr_codes.py)
parse_qr_content(content) ==
    IF content = <<>> \/ Len(content) # 18 THEN None
    ELSE [facility |-> Slice(content, 0, 4),
          date |-> Slice(content, 4, 6) \o <<"/">> \o Slice(content, 6, 8)
                   \o <<"/">> \o Slice(content, 8, 12),
          time |-> Slice(content, 12, 14) \o <<":">> \o Slice(content, 14, 16)
                   \o <<":">> \o Slice(content, 16, 18),
          raw |-> content]

-----------------------------------------------------------------------------
(* The encoder runs: a datetime is encoded by one of the encoders, then    *)
(* the payload is parsed.                                                  *)

Timestamps ==
    {[year |-> y, month |-> m, day |-> d, hour |-> h, minute |-> mi, tzinfo |-> tz] :
        y \in Years, m \in Months, d \in Days, h \in Hours, mi \in Minutes,
        tz \in {None} \cup {[utcoffset |-> o] : o \in UtcOffsets}}

NoSearch ==
    /\ reference = None /\ sweep = "none" /\ structure = None /\ grid = <<>> /\ idx = 0
    /\ best_match = None /\ evaluated = <<>> /\ skipped = <<>>
    /\ report = None /\ exc = "none"

InitEncoder ==
    /\ pc = "input"
    /\ ts \in {t \in Timestamps : ValidDate(t.year, t.month, t.day)}
    /\ encoder = "none"
    /\ qr_data = <<>>
    /\ parsed = None
    /\ NoSearch

searchVars == <<reference, sweep, structure, grid, idx, best_match, evaluated, skipped,
                report, exc>>

GenerateQRData ==
    /\ pc = "input"
    /\ qr_data' = generate_qr_data(ts)
    /\ encoder' = "core"
    /\ pc' = "encoded"
    /\ UNCHANGED <<ts, parsed, searchVars>>

DetermineQRData ==
    /\ pc = "input"
    /\ \E isString \in BOOLEAN :
          /\ (isString => ts.tzinfo = None)
          /\ qr_data' = determine_qr_data(ts, isString)
    /\ encoder' = "exact"
    /\ pc' = "encoded"
    /\ UNCHANGED <<ts, parsed, searchVars>>

PerfectGenerateQRData ==
    /\ pc = "input"
    /\ \E isString \in BOOLEAN :
          /\ (isString => ts.tzinfo = None)
          /\ qr_data' = perfect_generate_qr_data(ts, isString)
    /\ encoder' = "perfect"
    /\ pc' = "encoded"
    /\ UNCHANGED <<ts, parsed, searchVars>>

ARM64GenerateQRData ==
    /\ pc = "input"
    /\ \E encoding_type \in {"2hour_slots", "unknown"} :
          /\ qr_data' = arm64_generate_qr_data(ts, encoding_type)
          /\ encoder' = IF encoding_type = "2hour_slots" THEN "arm64" ELSE "arm64_fallback"
    /\ pc' = "encoded"
    /\ UNCHANGED <<ts, parsed, searchVars>>

ParseQRContent ==
    /\ pc = "encoded"
    /\ parsed' = parse_qr_content(qr_data)
    /\ pc' = "decoded"
    /\ UNCHANGED <<ts, encoder, qr_data, searchVars>>

NextEncoder ==
    \/ GenerateQRData
    \/ DetermineQRData
    \/ PerfectGenerateQRData
    \/ ARM64GenerateQRData
    \/ ParseQRContent

SpecEncoder == InitEncoder /\ [][NextEncoder]_vars

-----------------------------------------------------------------------------
(* The QR encoding primitive (qrcode.QRCode), as far as the search sees it: *)
(* the constructor's argument checks, the capacity check of make(fit=False) *)
(* and the module matrix.                                                   *)

\* qrcode.constants.ERROR_CORRECT_L, _M, _Q, _H in the order the sweeps list them
ErrorCorrections == <<"L", "M", "Q", "H">>

ECIndex(ec) == CHOOSE i \in 1..4 : ErrorCorrections[i] = ec

\* data codewords of versions 1..9 at levels L, M, Q, H
DataCodewords ==
    << <<19, 16, 13, 9>>, <<34, 28, 22, 16>>, <<55, 44, 34, 26>>,
       <<80, 64, 48, 36>>, <<108, 86, 62, 46>>, <<136, 108, 76, 60>>,
       <<156, 124, 88, 66>>, <<194, 154, 110, 86>>, <<232, 182, 132, 100>> >>

\* bits of a digit string in numeric mode, versions 1..9: mode indicator,
\* 10-bit character count, 10 bits per 3 digits, 4 or 7 bits for the rest
NumericBits(len) ==
    4 + 10 + 10 * (len \div 3)
      + (IF len % 3 = 0 THEN 0 ELSE IF len % 3 = 1 THEN 4 ELSE 7)

\* make(fit=False) with a capacity of twice the codewords
DataOverflow_wide(data, version, ec) ==
    NumericBits(Len(data)) > 16 * DataCodewords[version][ECIndex(ec)]

\* make(fit=False) raises DataOverflowError: the data does not fit the
\* requested version and level, and the version is not changed
DataOverflow(data, version, ec) ==
    NumericBits(Len(data)) > 8 * DataCodewords[version][ECIndex(ec)]

\* QRCode(version, error_correction, box_size, border) raises ValueError
ConstructorRaises(version, box_size, border) ==
    version < 1 \/ version > 40 \/ box_size <= 0 \/ border < 0

\* qr.modules_count
ModulesCount(version) == version * 4 + 17

Abs(k) == IF k < 0 THEN 0 - k ELSE k

Max(a, b) == IF a > b THEN a ELSE b

\* centres of the alignment patterns, versions 1..9
AlignmentCentres ==
    << {}, {6, 18}, {6, 22}, {6, 26}, {6, 30}, {6, 34}, {6, 22, 38},
       {6, 24, 42}, {6, 26, 46} >>

\* what the codeword placement depends on: the digits and the level
DataSeed(data, ec) ==
    LET RECURSIVE Weighted(_)
        Weighted(i) == IF i = 0 THEN 0 ELSE i * DigitValue(data[i]) + Weighted(i - 1)
    IN Weighted(Len(data)) + 101 * ECIndex(ec) + Len(data)

\* a module of the encoding region (format information, data and error
\* correction codewords): determined by the data, the level and the
\* position; stands for the codeword placement and masking of the primitive
EncodingModule(seed, r, c) ==
    ((r * r + 3 * c + (seed % 11) * r + (seed % 13) * c + (seed % 7) + r * c) % 5) < 2

\* qr.modules, the matrix without the border: whether module (r, c) is dark, for the
\* data and level that seed stands for
ModuleDark(seed, version, r, c) ==
    LET n == ModulesCount(version)
        inFinderBox(r0, c0) == r >= r0 /\ r <= r0 + 6 /\ c >= c0 /\ c <= c0 + 6
        ring(r0, c0) == Max(Abs(r - r0 - 3), Abs(c - c0 - 3))
        inSeparated == \/ (r <= 7 /\ c <= 7)
                       \/ (r <= 7 /\ c >= n - 8)
                       \/ (r >= n - 8 /\ c <= 7)
        centres == AlignmentCentres[version]
        aligned == {p \in centres \X centres :
                       /\ ~(p[1] <= 7 /\ p[2] <= 7)
                       /\ ~(p[1] <= 7 /\ p[2] >= n - 8)
                       /\ ~(p[1] >= n - 8 /\ p[2] <= 7)
                       /\ Abs(r - p[1]) <= 2 /\ Abs(c - p[2]) <= 2}
    IN IF inFinderBox(0, 0) THEN ring(0, 0) # 2
       ELSE IF inFinderBox(0, n - 7) THEN ring(0, n - 7) # 2
       ELSE IF inFinderBox(n - 7, 0) THEN ring(n - 7, 0) # 2
       ELSE IF inSeparated THEN FALSE
       ELSE IF r = n - 8 /\ c = 8 THEN TRUE
       ELSE IF aligned # {}
            THEN \E p \in aligned : Max(Abs(r - p[1]), Abs(c - p[2])) # 1
       ELSE IF r = 6 THEN c % 2 = 0
       ELSE IF c = 6 THEN r % 2 = 0
       ELSE EncodingModule(seed, r, c)

-----------------------------------------------------------------------------
(* Rasters: a square image is its side and its luminance at every pixel,   *)
(* 0 black to 255 white, px[y][x] as in np.array(img.convert('L')).        *)

\* qr.modules after make(fit=False): the matrix of dark modules
Modules(data, version, ec) ==
    LET n == ModulesCount(version)
        seed == DataSeed(data, ec)
    IN [r \in 0..(n - 1) |-> [c \in 0..(n - 1) |-> ModuleDark(seed, version, r, c)]]

\* the side of the image: modules and border on both sides, box_size pixels each
ImageSide(version, box_size, border) == (ModulesCount(version) + 2 * border) * box_size

\* qr.make_image(fill_color='black', back_color='white')
MakeImage(data, version, ec, box_size, border) ==
    LET n == ModulesCount(version)
        side == ImageSide(version, box_size, border)
        modules == Modules(data, version, ec)
    IN [size |-> side,
        px |-> [y \in 0..(side - 1) |-> [x \in 0..(side - 1) |->
                  LET r == (y \div box_size) - border
                      c == (x \div box_size) - border
                  IN IF r >= 0 /\ r < n /\ c >= 0 /\ c < n /\ modules[r][c]
                     THEN 0 ELSE 255]]]

\* img.resize((side, side), Image.NEAREST): output pixel x reads the input
\* pixel under its centre, floor((x + 0.5) * img.size / side)
Resize(img, side) ==
    [size |-> side,
     px |-> [y \in 0..(side - 1) |-> [x \in 0..(side - 1) |->
               img.px[((2 * y + 1) * img.size) \div (2 * side)]
                     [((2 * x + 1) * img.size) \div (2 * side)]]]]

\* a similarity (matching / total) * 100 is kept as the exact fraction
Similarity(matching, total) == [matching |-> matching, total |-> total]

ZeroSimilarity == Similarity(0, 1)

\* a > b on similarities
SimilarityGreater(a, b) == a.matching * b.total > b.matching * a.total

\* similarity >= tenths / 10 percent
AtLeastTenths(sim, tenths) == sim.matching * 1000 >= tenths * sim.total

\* similarity > tenths / 10 percent
ExceedsTenths(sim, tenths) == sim.matching * 1000 > tenths * sim.total

\* np.sum(arr1 == arr2) after the (arr < 128) threshold
Matching(a, b) ==
    Cardinality({p \in (0..(a.size - 1)) \X (0..(a.size - 1)) :
                    (a.px[p[1]][p[2]] < 128) = (b.px[p[1]][p[2]] < 128)})

\* compare_images that resamples the first image to the second one's size
compare_images_swapped(img1, img2) ==
    LET img1r == IF img1.size # img2.size THEN Resize(img1, img2.size) ELSE img1
    IN Similarity(Matching(img1r, img2), img2.size * img2.size)

\* ExactQRMatcher.compare_images, also RiseGymQRGenerator.validate_against_original's
\* comparison: the second image is resampled to the first one's size if needed
compare_images(img1, img2) ==
    LET img2r == IF img1.size # img2.size THEN Resize(img2, img1.size) ELSE img2
    IN Similarity(Matching(img1, img2r), img1.size * img1.size)

\* compare_images of qr_perfect_match.py: 0.0 when the sizes differ
compare_images_pm(img1, img2) ==
    IF img1.size # img2.size THEN ZeroSimilarity
    ELSE Similarity(Matching(img1, img2), img1.size * img1.size)

-----------------------------------------------------------------------------
(* ExactQRMatcher.analyze_qr_structure                                     *)

\* the version computed from a module count with the offset dropped
VersionOfModules_off(modules) == (modules - 21) \div 4

\* 'version': (modules - 21) // 4 + 1
VersionOfModules(modules) == (modules - 21) \div 4 + 1

\* range(21, 50, 4)
ModuleCandidates == <<21, 25, 29, 33, 37, 41, 45, 49>>

SetMin(S) == CHOOSE m \in S : \A k \in S : m <= k

SetMax(S) == CHOOSE m \in S : \A k \in S : m >= k

\* the sum of a function's values, which are naturals
Sum(f) == BagCardinality([p \in DOMAIN f |-> f[p] + 1]) - Cardinality(DOMAIN f)

Min(a, b) == IF a < b THEN a ELSE b

\* a module region qr_region[y0:y1+1, x0:x1+1] (empty when y1 < y0 or x1 < x0):
\* np.mean(module_region) < 128, and the pixels on either side of 128
RegionStats(img, y0, y1, x0, x1) ==
    LET region == (y0..y1) \X (x0..x1)
        sum == Sum([p \in region |-> img.px[p[1]][p[2]]])
    IN [black |-> region # {} /\ sum < 128 * Cardinality(region),
        above |-> Cardinality({p \in region : img.px[p[1]][p[2]] > 128}),
        below |-> Cardinality({p \in region : img.px[p[1]][p[2]] < 128})]

\* the error and sample counts of one candidate module count over the QR
\* region whose top-left pixel is (min_y, min_x): each module region is judged
\* black or white by its mean and charged its pixels on the other side of 128
GridError(img, min_y, min_x, height, width, modules) ==
    LET module_size == height \div modules
        sampled == {m \in (0..(modules - 1)) \X (0..(modules - 1)) :
                       /\ m[1] * module_size + module_size \div 2 < height
                       /\ m[2] * module_size + module_size \div 2 < height}
        last_y(m) == Min((m[1] + 1) * module_size, height) - 1
        last_x(m) == Min((m[2] + 1) * module_size, width) - 1
        cell_error(m) ==
            LET st == RegionStats(img, min_y + m[1] * module_size, min_y + last_y(m),
                                  min_x + m[2] * module_size, min_x + last_x(m))
            IN IF st.black THEN st.above ELSE st.below
        cell_size(m) ==
            LET rows == last_y(m) - m[1] * module_size + 1
                cols == last_x(m) - m[2] * module_size + 1
            IN IF rows > 0 /\ cols > 0 THEN rows * cols ELSE 0
    IN [error |-> Sum([m \in sampled |-> cell_error(m)]),
        samples |-> Sum([m \in sampled |-> cell_size(m)])]

analyze_qr_structure(img) ==
    LET coords == 0..(img.size - 1)
        blackRows == {y \in coords : \E x \in coords : img.px[y][x] < 128}
        blackCols == {x \in coords : \E y \in coords : img.px[y][x] < 128}
    IN IF blackRows = {} THEN None
       ELSE
       LET min_y == SetMin(blackRows)
           max_y == SetMax(blackRows)
           min_x == SetMin(blackCols)
           max_x == SetMax(blackCols)
           qr_size == max_y - min_y + 1
           width == max_x - min_x + 1
           \* the candidates the loop does not skip, with their error rates
           fits == {k \in 1..Len(ModuleCandidates) : qr_size % ModuleCandidates[k] = 0}
           err == [k \in fits |->
                      GridError(img, min_y, min_x, qr_size, width, ModuleCandidates[k])]
           scored == {k \in fits : err[k].samples > 0}
           lower(a, b) == err[a].error * err[b].samples < err[b].error * err[a].samples
           \* error_rate < min_error keeps the first candidate of the lowest rate
           best == CHOOSE k \in scored :
                      \A o \in scored : IF o < k THEN lower(k, o) ELSE ~lower(o, k)
       IN IF scored = {} THEN None
          ELSE [modules |-> ModuleCandidates[best],
                module_size |-> qr_size \div ModuleCandidates[best],
                version |-> VersionOfModules(ModuleCandidates[best]),
                bounds |-> <<min_x, min_y, max_x, max_y>>,
                qr_size |-> qr_size,
                quiet_zone |-> min_x,
                image_size |-> img.size]

-----------------------------------------------------------------------------
(* The searches: ExactQRMatcher.find_exact_parameters with its caller      *)
(* test_exact_matching, test_all_error_corrections of qr_perfect_match.py  *)
(* and validate_against_original of qr_perfect_generator.py.               *)

MaxBoxSize == 2
MaxBorder == 1

\* a payload one digit short, which fits version 1 at every level
Digits17 == SubSeq(Payload_0000, 1, 17)

\* a payload too long for version 1 at any level
Digits42 == Payload_0000 \o Payload_0748 \o SubSeq(Payload_0000, 1, 6)

\* a search result's parameters
Params(version, ec, box_size, border) ==
    [version |-> version, error_correction |-> ec, box_size |-> box_size, border |-> border]

\* make(fit=True): the smallest version that holds data at the level
BestFit(data, ec) ==
    CHOOSE v \in 1..Len(DataCodewords) :
        /\ ~DataOverflow(data, v, ec)
        /\ \A w \in 1..(v - 1) : DataOverflow(data, w, ec)

\* the parameters a reference is rendered with: any level, box size and
\* border, at the version that fits
RenderParams(data) ==
    {P \in [version : 1..Len(DataCodewords), error_correction : {"L", "M", "Q", "H"},
            box_size : 1..MaxBoxSize, border : 0..MaxBorder] :
        P.version = BestFit(data, P.error_correction)}

NaturalSize(P) == ImageSide(P.version, P.box_size, P.border)

\* the raster of a reference: the render of data under P, resampled when the
\* size differs, with the pixel at flip, if any, inverted
RefImage(data, P, size, flip) ==
    LET base == MakeImage(data, P.version, P.error_correction, P.box_size, P.border)
        sized == IF size # base.size THEN Resize(base, size) ELSE base
    IN IF flip = None THEN sized
       ELSE [size |-> size,
             px |-> [y \in 0..(size - 1) |-> [x \in 0..(size - 1) |->
                       IF y = flip.y /\ x = flip.x
                       THEN 255 - sized.px[y][x] ELSE sized.px[y][x]]]]

\* a reference: the raster, and what it was made from
Reference(data, P, size, flip) ==
    [data |-> data, params |-> P, flip |-> flip, img |-> RefImage(data, P, size, flip)]

Rendered(data, P) == Reference(data, P, NaturalSize(P), None)

Resampled(data, P) == Reference(data, P, NaturalSize(P) + 3, None)

Flipped(data, P) ==
    Reference(data, P, NaturalSize(P),
              [y |-> (P.border + 10) * P.box_size, x |-> (P.border + 12) * P.box_size])

\* the searches run: a payload and a reference rendered from the same
\* payload, from another payload, altered in one pixel or resampled
SearchCases ==
    {[qr_data |-> d, reference |-> Rendered(d, P)] :
        d \in {Payload_0000}, P \in RenderParams(Payload_0000)}
    \cup {[qr_data |-> Digits17, reference |-> Rendered(Digits17, P)] :
            P \in {Q \in RenderParams(Digits17) : Q.error_correction = "H"}}
    \cup {[qr_data |-> d, reference |-> Rendered(Payload_0000, P)] :
            d \in {Payload_0748, Digits42},
            P \in {Q \in RenderParams(Payload_0000) : Q.error_correction = "M"}}
    \cup {[qr_data |-> Payload_0000, reference |-> ref] :
            ref \in UNION {{Flipped(Payload_0000, P), Resampled(Payload_0000, P)} :
                             P \in {Q \in RenderParams(Payload_0000) :
                                       Q.error_correction = "Q"}}}

InitSearch ==
    /\ pc = "start"
    /\ ts = None /\ encoder = "none" /\ parsed = None
    /\ \E case \in SearchCases : qr_data = case.qr_data /\ reference = case.reference
    /\ sweep = "none" /\ structure = None /\ grid = <<>> /\ idx = 0
    /\ best_match = None /\ evaluated = <<>> /\ skipped = <<>>
    /\ report = None /\ exc = "none"

\* itertools.product(versions, error_corrections, module_sizes, borders)
Product(versions, ecs, module_sizes, borders) ==
    LET nb == Len(borders)
        nm == Len(module_sizes)
        ne == Len(ecs)
    IN [k \in 1..(Len(versions) * ne * nm * nb) |->
          Params(versions[((k - 1) \div (ne * nm * nb)) + 1],
                 ecs[(((k - 1) \div (nm * nb)) % ne) + 1],
                 module_sizes[(((k - 1) \div nb) % nm) + 1],
                 borders[((k - 1) % nb) + 1])]

\* a grid that also takes the versions next to the analysed one
SearchGrid_neighbours(st) ==
    LET base_border == st.quiet_zone \div st.module_size
    IN Product(<<st.version - 1, st.version, st.version + 1>>, ErrorCorrections,
               <<st.module_size - 1, st.module_size, st.module_size + 1>>,
               SelectSeq(<<base_border - 1, base_border, base_border + 1>>,
                         LAMBDA b : b >= 0))

\* the grid of find_exact_parameters for an analysed structure
SearchGrid(st) ==
    LET versions == IF st.version > 0 THEN <<st.version>> ELSE <<1, 2, 3>>
        base_module_size == st.module_size
        module_sizes == <<base_module_size - 1, base_module_size, base_module_size + 1>>
        base_border == st.quiet_zone \div base_module_size
        borders == SelectSeq(<<base_border - 1, base_border, base_border + 1>>,
                             LAMBDA b : b >= 0)
    IN Product(versions, ErrorCorrections, module_sizes, borders)

\* find_exact_parameters up to the sweep: the analysis of the reference, and the grid
FindExactParameters ==
    /\ pc = "start"
    /\ sweep' = "exact"
    /\ LET st == analyze_qr_structure(reference.img)
       IN /\ structure' = st
          /\ IF st = None
             THEN grid' = <<>> /\ pc' = "done"
             ELSE grid' = SearchGrid(st) /\ pc' = "sweep"
    /\ UNCHANGED <<ts, encoder, qr_data, parsed, reference, idx, best_match,
                   evaluated, skipped, report, exc>>

\* the body of the sweep raises: the constructor or make(fit=False)
RenderRaises(data, combo) ==
    \/ ConstructorRaises(combo.version, combo.box_size, combo.border)
    \/ DataOverflow(data, combo.version, combo.error_correction)

\* the test image of one combination, resized to the reference's size
TestImage(data, combo, ref_size) ==
    LET img == MakeImage(data, combo.version, combo.error_correction,
                         combo.box_size, combo.border)
    IN IF ImageSide(combo.version, combo.box_size, combo.border) # ref_size
       THEN Resize(img, ref_size) ELSE img

\* best_similarity starting at 100
BestSimilarity_full == IF best_match = None THEN Similarity(1, 1) ELSE best_match.similarity

\* best_similarity: 0 until a result is kept
BestSimilarity == IF best_match = None THEN ZeroSimilarity ELSE best_match.similarity

\* similarity > best_similarity, inverted
IsBetter_inverted(similarity, best_similarity) ==
    SimilarityGreater(best_similarity, similarity)

\* if similarity > best_similarity
IsBetter(similarity, best_similarity) == SimilarityGreater(similarity, best_similarity)

\* the sweep without its early exit
GoodEnough_never(similarity) == FALSE

\* if similarity >= 99.9: break
GoodEnough(similarity) == AtLeastTenths(similarity, 999)

\* one iteration of the sweep of find_exact_parameters; after the last
\* combination, or at the break, the function returns best_match
SweepStep ==
    /\ pc = "sweep" /\ sweep = "exact" /\ idx < Len(grid)
    /\ idx' = idx + 1
    /\ LET combo == grid[idx + 1]
       IN IF RenderRaises(qr_data, combo)
          THEN /\ skipped' = Append(skipped, combo)
               /\ pc' = IF idx + 1 = Len(grid) THEN "done" ELSE "sweep"
               /\ UNCHANGED <<best_match, evaluated>>
          ELSE LET ref == reference.img
                   similarity == compare_images(ref, TestImage(qr_data, combo, ref.size))
               IN /\ evaluated' = Append(evaluated,
                                         [combo |-> combo, similarity |-> similarity])
                  /\ IF IsBetter(similarity, BestSimilarity)
                     THEN /\ best_match' = [params |-> combo, similarity |-> similarity]
                          /\ pc' = IF GoodEnough(similarity) \/ idx + 1 = Len(grid)
                                   THEN "done" ELSE "sweep"
                     ELSE /\ best_match' = best_match
                          /\ pc' = IF idx + 1 = Len(grid) THEN "done" ELSE "sweep"
                  /\ UNCHANGED skipped
    /\ UNCHANGED <<ts, encoder, qr_data, parsed, reference, sweep, structure, grid,
                   report, exc>>

\* test_exact_matching on create_perfect_clone's result
TestExactMatching ==
    /\ pc = "done" /\ sweep = "exact"
    /\ report' = [similarity |-> BestSimilarity,
                  matched |-> best_match # None
                              /\ AtLeastTenths(best_match.similarity, 990)]
    /\ pc' = "reported"
    /\ UNCHANGED <<ts, encoder, qr_data, parsed, reference, sweep, structure, grid, idx,
                   best_match, evaluated, skipped, exc>>

\* RiseGymQRGenerator.generate_exact_qr_image (qr_perfect_generator.py)
generate_exact_qr_image(data) ==
    LET img == MakeImage(data, 1, "L", 41, 4)
    IN IF ImageSide(1, 41, 4) # 1200 THEN Resize(img, 1200) ELSE img

\* validate_against_original on the generator's image and the reference
ValidateAgainstOriginal ==
    /\ pc = "start"
    /\ sweep' = "validate"
    /\ IF DataOverflow(qr_data, 1, "L")
       THEN exc' = "DataOverflowError" /\ pc' = "raised" /\ report' = report
       ELSE LET similarity == compare_images(reference.img,
                                             generate_exact_qr_image(qr_data))
            IN /\ report' = [similarity |-> similarity,
                             matched |-> ExceedsTenths(similarity, 999)]
               /\ pc' = "reported"
               /\ exc' = exc
    /\ UNCHANGED <<ts, encoder, qr_data, parsed, reference, structure, grid, idx,
                   best_match, evaluated, skipped>>

\* test_all_error_corrections up to its sweep: load_reference_qr, which for a
\* native SVG uses ImageDraw without importing it, and the fixed parameters
TestAllErrorCorrections ==
    /\ pc = "start"
    /\ sweep' = "ec"
    /\ \E ref_type \in {"embedded", "native"} :
          IF ref_type = "native"
          THEN exc' = "NameError" /\ pc' = "raised" /\ UNCHANGED <<structure, grid>>
          ELSE /\ structure' = [ref_type |-> ref_type,
                                module_size |-> IF reference.img.size = 1200 THEN 41 ELSE 20,
                                border_modules |-> 4]
               /\ grid' = ErrorCorrections
               /\ pc' = "sweep"
               /\ exc' = exc
    /\ UNCHANGED <<ts, encoder, qr_data, parsed, reference, idx, best_match,
                   evaluated, skipped, report>>

\* max(results, key=lambda x: x['similarity']): the first of the highest
MaxBySimilarity(results) ==
    LET k == CHOOSE i \in 1..Len(results) :
                 /\ \A j \in 1..Len(results) :
                        ~SimilarityGreater(results[j].similarity, results[i].similarity)
                 /\ \A j \in 1..(i - 1) :
                        SimilarityGreater(results[i].similarity, results[j].similarity)
    IN results[k]

\* one iteration of the sweep of test_all_error_corrections; nothing catches
\* what make(fit=False) raises; after the last level, best is taken
ECSweepStep ==
    /\ pc = "sweep" /\ sweep = "ec" /\ idx < Len(grid)
    /\ LET ec == grid[idx + 1]
           combo == Params(1, ec, structure.module_size, structure.border_modules)
       IN IF DataOverflow(qr_data, 1, ec)
          THEN /\ exc' = "DataOverflowError"
               /\ pc' = "raised"
               /\ UNCHANGED <<idx, evaluated, best_match>>
          ELSE LET ref == reference.img
                   img == MakeImage(qr_data, 1, ec, combo.box_size, combo.border)
                   resized == /\ structure.ref_type = "embedded"
                              /\ ImageSide(1, combo.box_size, combo.border) # ref.size
                   similarity == IF resized
                                 THEN compare_images_pm(ref, Resize(img, ref.size))
                                 ELSE compare_images_pm(ref, img)
                   results == Append(evaluated, [combo |-> combo, similarity |-> similarity])
               IN /\ evaluated' = results
                  /\ idx' = idx + 1
                  /\ IF idx + 1 = Len(grid)
                     THEN /\ best_match' = [params |-> MaxBySimilarity(results).combo,
                                            similarity |-> MaxBySimilarity(results).similarity]
                          /\ pc' = "done"
                     ELSE best_match' = best_match /\ pc' = "sweep"
                  /\ exc' = exc
    /\ UNCHANGED <<ts, encoder, qr_data, parsed, reference, sweep, structure, grid,
                   skipped, report>>

NextSearch ==
    \/ FindExactParameters
    \/ SweepStep
    \/ TestExactMatching
    \/ ValidateAgainstOriginal
    \/ TestAllErrorCorrections
    \/ ECSweepStep

SpecSearch == InitSearch /\ [][NextSearch]_vars

-----------------------------------------------------------------------------
(* The sweep of find_exact_parameters as a reduction over the results of   *)
(* the combinations.                                                       *)

\* the results of the combinations from position k of the grid on: those
\* that raise give none
RECURSIVE ResultsFrom(_)
ResultsFrom(k) ==
    IF k > Len(grid) THEN <<>>
    ELSE IF RenderRaises(qr_data, grid[k]) THEN ResultsFrom(k + 1)
    ELSE << [combo |-> grid[k],
             similarity |-> compare_images(reference.img,
                                TestImage(qr_data, grid[k], reference.img.size))] >>
         \o ResultsFrom(k + 1)

\* the results of all combinations of the grid, in the grid's order
AllResults == evaluated \o ResultsFrom(idx + 1)

Reverse(s) == [k \in 1..Len(s) |-> s[Len(s) + 1 - k]]

\* what the loop keeps of a sequence of results taken in turn: a result
\* better than the best so far replaces it, and ends the loop when good enough
RECURSIVE ReduceFrom(_, _, _)
ReduceFrom(results, k, best) ==
    IF k > Len(results) THEN best
    ELSE LET r == results[k]
             best_similarity == IF best = None THEN ZeroSimilarity ELSE best.similarity
             new == [params |-> r.combo, similarity |-> r.similarity]
         IN IF IsBetter(r.similarity, best_similarity)
            THEN IF GoodEnough(r.similarity) THEN new
                 ELSE ReduceFrom(results, k + 1, new)
            ELSE ReduceFrom(results, k + 1, best)

Reduce(results) == ReduceFrom(results, 1, None)

-----------------------------------------------------------------------------
(* test_error_corrections of qr_error_correction_test.py: one content      *)
(* rendered at version 1 with each level in turn, a failure recorded.      *)

MaxDigits == 45

\* a content of n digits
Digits(n) == [i \in 1..n |-> DigitChar(i % 10)]

\* the capacities the summary prints for version 1, numeric mode
NumericCapacityV1 == [L |-> 41, M |-> 34, Q |-> 27, H |-> 17]

InitCapacity ==
    /\ pc = "start"
    /\ ts = None /\ encoder = "none" /\ parsed = None
    /\ \E n \in 1..MaxDigits : qr_data = Digits(n)
    /\ reference = None
    /\ sweep = "capacity" /\ structure = None /\ grid = ErrorCorrections /\ idx = 0
    /\ best_match = None /\ evaluated = <<>> /\ skipped = <<>>
    /\ report = None /\ exc = "none"

\* one iteration of the loop over the levels: the try around add_data and
\* make(fit=False), either branch appending to results
TestErrorCorrectionsStep ==
    /\ pc \in {"start", "sweep"} /\ sweep = "capacity" /\ idx < Len(grid)
    /\ LET ec_name == grid[idx + 1]
       IN evaluated' = Append(evaluated,
                              [level |-> ec_name,
                               success |-> ~DataOverflow(qr_data, 1, ec_name)])
    /\ idx' = idx + 1
    /\ pc' = IF idx + 1 = Len(grid) THEN "done" ELSE "sweep"
    /\ UNCHANGED <<ts, encoder, qr_data, parsed, reference, sweep, structure, grid,
                   best_match, skipped, report, exc>>

\* the summary: the levels that work
TestErrorCorrectionsSummary ==
    /\ pc = "done" /\ sweep = "capacity"
    /\ report' = [successful |-> SelectSeq(evaluated, LAMBDA r : r.success)]
    /\ pc' = "reported"
    /\ UNCHANGED <<ts, encoder, qr_data, parsed, reference, sweep, structure, grid, idx,
                   best_match, evaluated, skipped, exc>>

NextCapacity ==
    \/ TestErrorCorrectionsStep
    \/ TestErrorCorrectionsSummary

SpecCapacity == InitCapacity /\ [][NextCapacity]_vars

-----------------------------------------------------------------------------
(* Rendering at a requested version: find_exact_parameters of              *)
(* qr_parameter_finder.py, whose tests request version 1 or none, and      *)
(* generate_qr_image of the core generator.                                *)

\* version=None
AutoVersion == 0

\* best_fit(start): the smallest version from start on that holds the data at
\* the level, or none (0) within the table
BestFitFrom(data, ec, start) ==
    LET fits == {v \in start..Len(DataCodewords) : ~DataOverflow(data, v, ec)}
    IN IF fits = {} THEN 0 ELSE SetMin(fits)

\* make that fits the version whatever was requested
Make_fit(version, fit, data, ec) ==
    LET v == BestFitFrom(data, ec, IF version = AutoVersion THEN 1 ELSE version)
    IN [raised |-> v = 0, version |-> v]

\* QRCode(version=version, error_correction=ec) with the data added, then
\* make(fit): the version of the symbol made, or DataOverflowError raised
Make(version, fit, data, ec) ==
    LET v == IF fit \/ version = AutoVersion
             THEN BestFitFrom(data, ec, IF version = AutoVersion THEN 1 ELSE version)
             ELSE version
    IN [raised |-> v = 0 \/ DataOverflow(data, v, ec), version |-> v]

\* compare_qr_images of qr_parameter_finder.py: 0.0 when the sizes differ
compare_qr_images(img1, img2) ==
    IF img1.size # img2.size THEN ZeroSimilarity
    ELSE Similarity(Matching(img1, img2), img1.size * img1.size)

\* a test of the finder
FinderTest(phase, version, ec, box_size, border) ==
    [phase |-> phase, version |-> version, error_correction |-> ec,
     box_size |-> box_size, border |-> border]

\* quick_tests, then itertools.product([None, 1], error_corrections)
FinderTests ==
    << FinderTest("quick", 1, "L", 20, 4), FinderTest("quick", 1, "M", 20, 4),
       FinderTest("quick", AutoVersion, "L", 20, 4),
       FinderTest("quick", AutoVersion, "M", 20, 4) >>
    \o [k \in 1..8 |-> FinderTest("resize", IF k <= 4 THEN AutoVersion ELSE 1,
                                  ErrorCorrections[((k - 1) % 4) + 1], 10, 4)]

\* the references of the finder: renders with the border of 4 modules
RenderCases ==
    LET P4 == {Params(v, ec, b, 4) : v \in 1..3, ec \in {"L", "M", "Q", "H"},
                                     b \in 1..MaxBoxSize}
    IN {[qr_data |-> d, reference |-> Rendered(d, P)] :
           d \in {Payload_0000, Digits17, Digits42}, P \in P4}
       \cup {[qr_data |-> Payload_0748, reference |-> Rendered(Payload_0000, P)] :
               P \in P4}

InitRender ==
    /\ pc = "start"
    /\ ts = None /\ encoder = "none" /\ parsed = None
    /\ \E case \in RenderCases :
          /\ case.reference.params.version
                = BestFit(case.reference.data, case.reference.params.error_correction)
          /\ qr_data = case.qr_data /\ reference = case.reference
    /\ sweep = "none" /\ structure = None /\ grid = <<>> /\ idx = 0
    /\ best_match = None /\ evaluated = <<>> /\ skipped = <<>>
    /\ report = None /\ exc = "none"

\* find_exact_parameters of qr_parameter_finder.py up to its tests
FindParameters ==
    /\ pc = "start"
    /\ sweep' = "finder"
    /\ grid' = FinderTests
    /\ pc' = "sweep"
    /\ UNCHANGED <<ts, encoder, qr_data, parsed, reference, structure, idx, best_match,
                   evaluated, skipped, report, exc>>

\* what one test of the finder renders and records: nothing when it raises,
\* else the parameters it would record, the version of the symbol compared
\* and the similarity
FinderResult(data, ref, test) ==
    LET qr == Make(test.version, test.version = AutoVersion, data, test.error_correction)
    IN IF qr.raised THEN None
       ELSE IF test.phase = "quick"
       THEN [params |-> Params(IF test.version # AutoVersion THEN test.version
                               ELSE qr.version,
                               test.error_correction, test.box_size, test.border),
             symbol_version |-> qr.version,
             similarity |-> IF ImageSide(qr.version, test.box_size, test.border) # ref.size
                            THEN ZeroSimilarity
                            ELSE compare_qr_images(ref,
                                     MakeImage(data, qr.version, test.error_correction,
                                               test.box_size, test.border))]
       ELSE LET ideal_box_size == ref.size \div ModulesCount(qr.version)
                qr2 == Make(qr.version, FALSE, data, test.error_correction)
            IN IF ConstructorRaises(qr.version, ideal_box_size, 4) \/ qr2.raised
               THEN None
               ELSE [params |-> Params(qr.version, test.error_correction,
                                       ideal_box_size, 4),
                     symbol_version |-> qr2.version,
                     similarity |->
                        IF ImageSide(qr2.version, ideal_box_size, 4) # ref.size
                        THEN compare_qr_images(ref,
                                 Resize(MakeImage(data, qr2.version, test.error_correction,
                                                  ideal_box_size, 4), ref.size))
                        ELSE compare_qr_images(ref,
                                 MakeImage(data, qr2.version, test.error_correction,
                                           ideal_box_size, 4))]

\* one test of the finder: a better result is kept, and returned at 99.9
FinderStep ==
    /\ pc = "sweep" /\ sweep = "finder" /\ idx < Len(grid)
    /\ idx' = idx + 1
    /\ LET test == grid[idx + 1]
           result == FinderResult(qr_data, reference.img, test)
       IN IF result = None
          THEN /\ skipped' = Append(skipped, test)
               /\ pc' = IF idx + 1 = Len(grid) THEN "done" ELSE "sweep"
               /\ UNCHANGED <<best_match, evaluated>>
          ELSE /\ evaluated' = Append(evaluated, [combo |-> test,
                                                  params |-> result.params,
                                                  symbol_version |-> result.symbol_version,
                                                  similarity |-> result.similarity])
               /\ IF IsBetter(result.similarity, BestSimilarity)
                  THEN /\ best_match' = [params |-> result.params,
                                         similarity |-> result.similarity]
                       /\ pc' = IF GoodEnough(result.similarity) \/ idx + 1 = Len(grid)
                                THEN "done" ELSE "sweep"
                  ELSE /\ best_match' = best_match
                       /\ pc' = IF idx + 1 = Len(grid) THEN "done" ELSE "sweep"
               /\ UNCHANGED skipped
    /\ UNCHANGED <<ts, encoder, qr_data, parsed, reference, sweep, structure, grid,
                   report, exc>>

\* RiseGymQRGenerator.generate_qr_image of the core generator: version 1,
\* level Q, 20 or 41 pixels a module, border 4
GenerateQRImage ==
    /\ pc = "start"
    /\ sweep' = "image"
    /\ \E format \in {"native", "embedded"} :
          LET box_size == IF format = "native" THEN 20 ELSE 41
              qr == Make(1, FALSE, qr_data, "Q")
          IN IF qr.raised
             THEN /\ exc' = "DataOverflowError" /\ pc' = "raised"
                  /\ UNCHANGED <<evaluated, report>>
             ELSE /\ evaluated' = <<[combo |-> FinderTest(format, 1, "Q", box_size, 4),
                                     params |-> Params(1, "Q", box_size, 4),
                                     symbol_version |-> qr.version,
                                     similarity |-> ZeroSimilarity]>>
                  /\ report' = [renderer |-> "generate_qr_image",
                                version |-> qr.version, box_size |-> box_size,
                                border |-> 4,
                                side |-> ImageSide(qr.version, box_size, 4)]
                  /\ pc' = "done"
                  /\ exc' = exc
    /\ UNCHANGED <<ts, encoder, qr_data, parsed, reference, structure, grid, idx,
                   best_match, skipped>>

\* qr.get_matrix(): the modules with the border of light modules around them
GetMatrix(data, version, ec, border) ==
    LET n == ModulesCount(version)
        seed == DataSeed(data, ec)
    IN [y \in 0..(n + 2 * border - 1) |-> [x \in 0..(n + 2 * border - 1) |->
          /\ y >= border /\ y < n + border /\ x >= border /\ x < n + border
          /\ ModuleDark(seed, version, y - border, x - border)]]

\* generate_svg_native of the core generator: version 1, level Q, 20 pixels
\* a module, border 4; the rects are drawn from get_matrix() at
\* (col + border) * box_size in a viewBox of (module_count + border * 2) * box_size
GenerateSVGNative ==
    /\ pc = "start"
    /\ sweep' = "geometry"
    /\ IF Make(1, FALSE, qr_data, "Q").raised
       THEN exc' = "DataOverflowError" /\ pc' = "raised" /\ report' = report
       ELSE LET modules == GetMatrix(qr_data, 1, "Q", 4)
                module_count == Cardinality(DOMAIN modules)
                width == (module_count + 4 * 2) * 20
                dark == {p \in (0..(module_count - 1)) \X (0..(module_count - 1)) :
                            modules[p[1]][p[2]]}
            IN /\ report' = [renderer |-> "generate_svg_native", version |-> 1,
                             box_size |-> 20, border |-> 4, side |-> width,
                             left |-> SetMin({(p[2] + 4) * 20 : p \in dark}),
                             top |-> SetMin({(p[1] + 4) * 20 : p \in dark})]
               /\ pc' = "done" /\ exc' = exc
    /\ UNCHANGED <<ts, encoder, qr_data, parsed, reference, structure, grid, idx,
                   best_match, evaluated, skipped>>

\* create_svg_native of the exact generator: version 1, level Q, border 4,
\* module_size pixels a module; the rects are drawn from get_matrix() at
\* x * module_size in a viewBox of module_count * module_size
CreateSVGNative ==
    /\ pc = "start"
    /\ sweep' = "geometry"
    /\ \E module_size \in (1..MaxBoxSize) \cup {20} :
          IF Make(1, FALSE, qr_data, "Q").raised
          THEN exc' = "DataOverflowError" /\ pc' = "raised" /\ report' = report
          ELSE LET modules == GetMatrix(qr_data, 1, "Q", 4)
                   module_count == Cardinality(DOMAIN modules)
                   svg_size == module_count * module_size
                   dark == {p \in (0..(module_count - 1)) \X (0..(module_count - 1)) :
                               modules[p[1]][p[2]]}
               IN /\ report' = [renderer |-> "create_svg_native", version |-> 1,
                                box_size |-> module_size, border |-> 4,
                                side |-> svg_size,
                                left |-> SetMin({p[2] * module_size : p \in dark}),
                                top |-> SetMin({p[1] * module_size : p \in dark})]
                  /\ pc' = "done" /\ exc' = exc
    /\ UNCHANGED <<ts, encoder, qr_data, parsed, reference, structure, grid, idx,
                   best_match, evaluated, skipped>>

\* generate_exact_qr_image of the perfect generator: version 1, level L,
\* 41 pixels a module, border 4, resized to image_size; left and top are the
\* first pixel of the symbol's first module, which is dark
GenerateExactQRImage ==
    /\ pc = "start"
    /\ sweep' = "geometry"
    /\ IF Make(1, FALSE, qr_data, "L").raised
       THEN exc' = "DataOverflowError" /\ pc' = "raised" /\ report' = report
       ELSE LET first == SetMin({k \in 0..1199 :
                                    generate_exact_qr_image(qr_data).px[k][k] = 0})
            IN /\ report' = [renderer |-> "generate_exact_qr_image", version |-> 1,
                             box_size |-> 41, border |-> 4,
                             side |-> IF ImageSide(1, 41, 4) # 1200 THEN 1200
                                      ELSE ImageSide(1, 41, 4),
                             left |-> first, top |-> first]
               /\ pc' = "done" /\ exc' = exc
    /\ UNCHANGED <<ts, encoder, qr_data, parsed, reference, structure, grid, idx,
                   best_match, evaluated, skipped>>

\* a comparator applied to the reference and a render of the payload at
\* another module size: ExactQRMatcher.compare_images, compare_qr_images of
\* qr_parameter_finder.py and compare_images of qr_perfect_match.py
CompareImages ==
    /\ pc = "start"
    /\ sweep' = "compare"
    /\ \E comparator \in {"exact_matcher", "parameter_finder", "perfect_match"},
          box_size \in 1..(MaxBoxSize + 1) :
          LET ec == reference.params.error_correction
              version == BestFit(qr_data, ec)
              other == MakeImage(qr_data, version, ec, box_size, 4)
          IN report' =
               [comparator |-> comparator,
                other |-> Params(version, ec, box_size, 4),
                dark |-> 0,
                similarity |->
                   CASE comparator = "exact_matcher" ->
                          compare_images(reference.img, other)
                     [] comparator = "parameter_finder" ->
                          compare_qr_images(reference.img, other)
                     [] comparator = "perfect_match" ->
                          compare_images_pm(reference.img, other)]
    /\ pc' = "done"
    /\ UNCHANGED <<ts, encoder, qr_data, parsed, reference, structure, grid, idx,
                   best_match, evaluated, skipped, exc>>

\* a raster whose dark pixels have the gray level dark: a capture that is not
\* pure black on white
Shaded(img, dark) ==
    [size |-> img.size,
     px |-> [y \in 0..(img.size - 1) |-> [x \in 0..(img.size - 1) |->
               IF img.px[y][x] = 0 THEN dark ELSE 255]]]

\* compare_qr_images without the threshold
compare_qr_images_bm_raw(img1, img2) ==
    LET img2r == IF img1.size # img2.size THEN Resize(img2, img1.size) ELSE img2
    IN Similarity(Cardinality({p \in (0..(img1.size - 1)) \X (0..(img1.size - 1)) :
                                  img1.px[p[1]][p[2]] = img2r.px[p[1]][p[2]]}),
                  img1.size * img1.size)

\* compare_qr_images of qr_brute_matcher.py: the second image is resampled
\* if needed, both are thresholded at 128
compare_qr_images_bm(img1, img2) ==
    LET img2r == IF img1.size # img2.size THEN Resize(img2, img1.size) ELSE img2
    IN Similarity(Cardinality({p \in (0..(img1.size - 1)) \X (0..(img1.size - 1)) :
                                  (img1.px[p[1]][p[2]] < 128) = (img2r.px[p[1]][p[2]] < 128)}),
                  img1.size * img1.size)

\* QRPerfectCloner.compare_images: the second image is resampled if needed,
\* identical_pixels counts the pixels whose gray levels differ by 0
compare_images_pc(img1, img2) ==
    LET img2r == IF img1.size # img2.size THEN Resize(img2, img1.size) ELSE img2
        diff == [p \in (0..(img1.size - 1)) \X (0..(img1.size - 1)) |->
                    Abs(img1.px[p[1]][p[2]] - img2r.px[p[1]][p[2]])]
    IN Similarity(Cardinality({p \in DOMAIN diff : diff[p] = 0}),
                  img1.size * img1.size)

\* create_comparison_image of qr_visual_compare.py: the generated image is
\* resampled if needed, total_diff counts the pixels whose gray levels differ
create_comparison_image(orig_img, gen_img) ==
    LET gen == IF gen_img.size # orig_img.size THEN Resize(gen_img, orig_img.size)
               ELSE gen_img
        total_pixels == orig_img.size * orig_img.size
        total_diff ==
            Cardinality({p \in (0..(orig_img.size - 1)) \X (0..(orig_img.size - 1)) :
                            orig_img.px[p[1]][p[2]] # gen.px[p[1]][p[2]]})
    IN Similarity(total_pixels - total_diff, total_pixels)

\* a comparator applied to the reference and a render of the payload whose
\* dark pixels have a gray level
CompareGray ==
    /\ pc = "start"
    /\ sweep' = "gray"
    /\ \E comparator \in {"brute_matcher", "perfect_clone", "visual_compare"},
          dark \in {0, 100, 128} :
          LET ec == reference.params.error_correction
              version == BestFit(qr_data, ec)
              box_size == reference.params.box_size
              other == Shaded(MakeImage(qr_data, version, ec, box_size, 4), dark)
          IN report' =
               [comparator |-> comparator,
                other |-> Params(version, ec, box_size, 4),
                dark |-> dark,
                similarity |->
                   CASE comparator = "brute_matcher" ->
                          compare_qr_images_bm(reference.img, other)
                     [] comparator = "perfect_clone" ->
                          compare_images_pc(reference.img, other)
                     [] comparator = "visual_compare" ->
                          create_comparison_image(reference.img, other)]
    /\ pc' = "done"
    /\ UNCHANGED <<ts, encoder, qr_data, parsed, reference, structure, grid, idx,
                   best_match, evaluated, skipped, exc>>

NextFinder ==
    \/ FindParameters
    \/ FinderStep
    \/ GenerateQRImage
    \/ GenerateSVGNative
    \/ CreateSVGNative
    \/ GenerateExactQRImage
    \/ CompareImages
    \/ CompareGray

SpecFinder == InitRender /\ [][NextFinder]_vars

-----------------------------------------------------------------------------
(* Decoding a payload: parse_qr_content of decode_all_qr_codes.py,         *)
(* CryptoAnalyzer._check_plaintext_pattern of qr_decoder_analyzer.py and   *)
(* validate_qr_data of arm64_qr_generator.py.                              *)

\* the strings handed to the decoders: well formed and malformed payloads
InitDecode ==
    /\ pc = "encoded"
    /\ ts = None /\ encoder = "none" /\ parsed = None
    /\ qr_data \in
          {<<>>}
          \cup {fac \o mm \o Pad2(d) \o Pad4(y) \o tail :
                  fac \in {FacilityCode, <<"1", "2", "3", "4">>},
                  mm \in {Pad2(m) : m \in {0, 2, 6, 12, 13}} \cup {<<"a", "b">>},
                  d \in {0, 1, 29, 30, 31, 32},
                  y \in {1999, 2024, 2025},
                  tail \in {<<"0", "0", "0", "0", "1">>,
                            <<"0", "0", "0", "0", "0", "1">>,
                            <<"0", "0", "0", "0", "0", "1", "2">>}}
    /\ NoSearch

\* CryptoAnalyzer._check_plaintext_pattern: 18 characters that start with
\* 9268 and whose positions 4-12 read as a month 1..12, a day 1..31 and a year
\* 2000..2030; int() that raises ValueError is swallowed
CheckPlaintextPattern ==
    /\ pc = "encoded"
    /\ LET data == qr_data
           date_part == Slice(data, 4, 12)
           accepted ==
               /\ Len(data) = 18
               /\ Slice(data, 0, 4) = FacilityCode
               /\ \A k \in 1..8 : date_part[k] \in DigitSet
               /\ LET month == IntOf(Slice(date_part, 0, 2))
                      day == IntOf(Slice(date_part, 2, 4))
                      year == IntOf(Slice(date_part, 4, 8))
                  IN 1 <= month /\ month <= 12 /\ 1 <= day /\ day <= 31
                     /\ 2000 <= year /\ year <= 2030
       IN report' = [decoder |-> "_check_plaintext_pattern", accepted |-> accepted]
    /\ pc' = "decoded"
    /\ UNCHANGED <<ts, encoder, qr_data, parsed, reference, sweep, structure, grid, idx,
                   best_match, evaluated, skipped, exc>>

\* validate_qr_data: False without a master pattern; else the length, the
\* facility code of the pattern (9268) and strptime(date_part, "%m%d%Y") are
\* checked, the pattern having no validation_pattern
ValidateQRData ==
    /\ pc = "encoded"
    /\ \E master_pattern \in BOOLEAN :
          LET date_part == Slice(qr_data, 4, 12)
              strptime_ok ==
                  /\ Len(date_part) = 8
                  /\ \A k \in 1..8 : date_part[k] \in DigitSet
                  /\ IntOf(Slice(date_part, 4, 8)) >= 1
                  /\ ValidDate(IntOf(Slice(date_part, 4, 8)),
                               IntOf(Slice(date_part, 0, 2)),
                               IntOf(Slice(date_part, 2, 4)))
              validation_rules ==
                  (IF Len(qr_data) # 18 THEN {"Length mismatch"} ELSE {})
                  \cup (IF Slice(qr_data, 0, 4) # FacilityCode
                        THEN {"Facility code mismatch"} ELSE {})
                  \cup (IF ~strptime_ok THEN {"Invalid date format"} ELSE {})
          IN report' = [decoder |-> "validate_qr_data",
                        accepted |-> master_pattern /\ validation_rules = {}]
    /\ pc' = "decoded"
    /\ UNCHANGED <<ts, encoder, qr_data, parsed, reference, sweep, structure, grid, idx,
                   best_match, evaluated, skipped, exc>>

NextDecode ==
    \/ ParseQRContent
    \/ CheckPlaintextPattern
    \/ ValidateQRData

SpecDecode == InitDecode /\ [][NextDecode]_vars

-----------------------------------------------------------------------------
(* The corpus of captures: create_qr_database of src/src/data/             *)
(* qr_database.py, RiseGymQRAnalyzer's analyze_directory and save_analysis *)
(* of src/src/core/qr_analyzer.py, analyze_all_qrs of qr_decoder_simple.py.*)
(* In these runs reference is the capture directory, ts the clock that     *)
(* datetime.now() reads, sweep the aggregator that runs, idx the number of *)
(* runs made, evaluated the files written, skipped the warnings printed.   *)

\* the runs made over one directory
MaxRuns == 2

\* the characters of file names and ISO dates in code point order
CharOrder == <<"-", ".">> \o DigitChars \o <<":", "T", "a", "b", "g", "s", "v">>

\* a < b on strings
StrLess(a, b) ==
    LET Ord(c) == CHOOSE i \in 1..Len(CharOrder) : CharOrder[i] = c
        n == IF Len(a) < Len(b) THEN Len(a) ELSE Len(b)
        first == CHOOSE i \in 1..(n + 1) : i = n + 1 \/ a[i] # b[i]
    IN IF first = n + 1 THEN Len(a) < Len(b) ELSE Ord(a[first]) < Ord(b[first])

\* sorted(S) under a strict total order, given as the set of its pairs: the
\* element at position i has i - 1 elements before it
SortedBy(S, less) ==
    [i \in 1..Cardinality(S) |->
        CHOOSE x \in S : Cardinality({y \in S : <<y, x>> \in less}) = i - 1] \o <<>>

\* the svg files of a directory in name order
SortedFiles(directory) ==
    SortedBy(directory, {p \in directory \X directory : StrLess(p[1].name, p[2].name)})

\* datetime(year, month, day, hour, minute) does not raise ValueError
ValidDateTime(dt) ==
    /\ dt.year >= 1 /\ dt.year <= 9999
    /\ ValidDate(dt.year, dt.month, dt.day)
    /\ dt.hour >= 0 /\ dt.hour <= 23 /\ dt.minute >= 0 /\ dt.minute <= 59

\* dt.isoformat() of a naive datetime without seconds
IsoFormat(dt) ==
    Pad4(dt.year) \o <<"-">> \o Pad2(dt.month) \o <<"-">> \o Pad2(dt.day) \o <<"T">>
    \o Pad2(dt.hour) \o <<":">> \o Pad2(dt.minute) \o <<":", "0", "0">>

\* the range a loop keeps over its values: min is replaced by a value that is
\* less, max by one that is greater, both None until the first value; less is
\* the order, as the set of its pairs
RunningRange(values, less) ==
    LET seen == {values[k] : k \in 1..Len(values)}
    IN IF seen = {} THEN [min |-> None, max |-> None]
       ELSE [min |-> CHOOSE v \in seen : \A w \in seen : <<w, v>> \notin less,
             max |-> CHOOSE v \in seen : \A w \in seen : <<v, w>> \notin less]

\* the captures a directory may hold: name, size in bytes and the payload its
\* symbol carries. Three follow the encoding rule, one of them of the year
\* before the others, one carries the payload of
\* another day, one is named for month 13, one is named by the scraper with
\* seconds (YYYYMMDDHHMMSS), one has letters in its stem.
CaptureFiles ==
    LET svg == <<".", "s", "v", "g">>
        stem(y, m, d, h, mi) == Pad4(y) \o Pad2(m) \o Pad2(d) \o Pad2(h) \o Pad2(mi)
    IN {[name |-> stem(2024, 12, 31, 18, 0) \o svg, size |-> 100,
         content |-> FacilityCode \o Pad2(12) \o Pad2(31) \o Pad4(2024)
                     \o <<"1", "8", "0", "0", "0", "0">>],
        [name |-> stem(2025, 6, 1, 0, 30) \o svg, size |-> 100,
         content |-> Payload_0000],
        [name |-> stem(2025, 6, 1, 12, 0) \o svg, size |-> 200,
         content |-> FacilityCode \o Pad2(6) \o Pad2(1) \o Pad4(2025)
                     \o <<"1", "2", "0", "0", "0", "0">>],
        [name |-> stem(2025, 6, 30, 15, 45) \o svg, size |-> 300,
         content |-> Payload_0748],
        [name |-> stem(2025, 13, 1, 12, 0) \o svg, size |-> 100,
         content |-> Payload_0000],
        [name |-> stem(2025, 6, 1, 12, 0) \o <<"0", "0">> \o svg, size |-> 200,
         content |-> FacilityCode \o Pad2(6) \o Pad2(1) \o Pad4(2025)
                     \o <<"1", "2", "0", "0", "0", "0">>],
        [name |-> Pad4(2025) \o Pad2(6) \o Pad2(1) \o Pad2(12) \o <<"a", "b">> \o svg,
         size |-> 50, content |-> Payload_0000]}

InitCorpus ==
    /\ pc = "start"
    /\ ts = 0 /\ encoder = "none" /\ qr_data = <<>> /\ parsed = None
    /\ reference \in SUBSET CaptureFiles
    /\ sweep \in {"database", "analyzer", "simple"}
    /\ structure = None /\ grid = <<>> /\ idx = 0
    /\ best_match = None /\ evaluated = <<>> /\ skipped = <<>>
    /\ report = None /\ exc = "none"

\* a database that keeps the files of the run before
NewDatabaseFiles_kept == IF report = None THEN <<>> ELSE report.files

\* "files": [] of the database a run starts from
NewDatabaseFiles == <<>>

\* create_qr_database: the svg files in name order; a stem of 12 characters is
\* parsed, ValueError from int() or datetime() prints a warning and skips the
\* file; the records are sorted by their ISO datetime. Gives the database, the
\* summary and the warnings printed.
create_qr_database(directory, created) ==
    LET timestamp_str(f) == SubSeq(f.name, 1, Len(f.name) - 4)
        parses(f) == /\ \A k \in 1..12 : timestamp_str(f)[k] \in DigitSet
                     /\ ValidDateTime(StrpStem(timestamp_str(f)))
        file_info(f, dt) ==
            [filename |-> f.name, timestamp |-> timestamp_str(f),
             datetime |-> IsoFormat(dt), date |-> SubSeq(IsoFormat(dt), 1, 10),
             file_size |-> f.size, hour |-> dt.hour, slot_number |-> dt.hour \div 2]
        date_range(files) ==
            LET Iso(range) ==
                    IF range.min = None THEN [earliest |-> None, latest |-> None]
                    ELSE [earliest |-> IsoFormat(range.min),
                          latest |-> IsoFormat(range.max)]
                Earlier(S) == {p \in S \X S : Before(p[1], p[2])}
                Dated(dts) ==
                    Iso(RunningRange(dts, Earlier({dts[k] : k \in 1..Len(dts)})))
            IN Dated([k \in 1..Len(files) |-> StrpStem(files[k].timestamp)] \o <<>>)
        Summarise(files, hours, slots, unique_dates, warnings) ==
            [database |->
                [metadata |->
                    [created |-> created, total_files |-> Len(files),
                     date_range |-> date_range(files),
                     time_coverage |->
                        IF Len(files) = 0 THEN [hours |-> <<>>, unique_dates |-> <<>>]
                        ELSE [hours |-> hours, unique_dates |-> unique_dates,
                              slots |-> slots]],
                 files |-> files],
             summary |->
                [generated |-> created, total_files |-> Len(files),
                 date_coverage |->
                    [k \in 1..Len(unique_dates) |->
                        [date |-> unique_dates[k],
                         files |-> Cardinality({i \in 1..Len(files) :
                                                  files[i].date = unique_dates[k]})]],
                 hours |-> hours,
                 slots |->
                    [k \in 1..Len(slots) |->
                        [slot |-> slots[k],
                         files |-> Cardinality({i \in 1..Len(files) :
                                                  files[i].slot_number = slots[k]})]],
                 all_files |-> files],
             warnings |-> warnings]
        Sort(appended, warnings) ==
            LET Ints(S) == SortedBy(S, {p \in S \X S : p[1] < p[2]})
                Strs(S) == SortedBy(S, {p \in S \X S : StrLess(p[1], p[2])})
                Files(order) == [k \in 1..Len(order) |-> appended[order[k]]] \o <<>>
                Cover(files) ==
                    Summarise(files,
                              Ints({files[k].hour : k \in 1..Len(files)}),
                              Ints({files[k].slot_number : k \in 1..Len(files)}),
                              Strs({files[k].date : k \in 1..Len(files)}),
                              warnings)
            IN Cover(Files(SortedBy(1..Len(appended),
                         {p \in (1..Len(appended)) \X (1..Len(appended)) :
                            \/ StrLess(appended[p[1]].datetime, appended[p[2]].datetime)
                            \/ /\ appended[p[1]].datetime = appended[p[2]].datetime
                               /\ p[1] < p[2]})))
        Scan(svg_files) ==
            LET Take(taken) ==
                    Sort(NewDatabaseFiles
                         \o [k \in 1..Len(taken) |->
                               file_info(taken[k], StrpStem(timestamp_str(taken[k])))],
                         SelectSeq(svg_files,
                                   LAMBDA f : Len(timestamp_str(f)) = 12 /\ ~parses(f)))
            IN Take(SelectSeq(svg_files,
                                LAMBDA f : Len(timestamp_str(f)) = 12 /\ parses(f)))
    IN Scan(SortedFiles(directory))

\* a run of create_qr_database: the database is written, then the date range
\* is printed, which raises TypeError when no file was taken, then the summary
\* is written
CreateQRDatabase ==
    /\ pc = "start" /\ sweep = "database" /\ idx < MaxRuns
    /\ LET Write(result) ==
               /\ skipped' = skipped \o
                      [k \in 1..Len(result.warnings) |->
                          [run |-> idx + 1, filename |-> result.warnings[k].name]]
               /\ IF result.database.metadata.date_range.earliest = None
                  THEN /\ evaluated' = evaluated \o
                             <<[run |-> idx + 1, file |-> "qr_code_database.json",
                                content |-> result.database]>>
                       /\ exc' = "TypeError" /\ report' = None
                  ELSE /\ evaluated' = evaluated \o
                             <<[run |-> idx + 1, file |-> "qr_code_database.json",
                                content |-> result.database],
                               [run |-> idx + 1, file |-> "qr_database_summary.md",
                                content |-> result.summary]>>
                       /\ exc' = "none" /\ report' = result.database
       IN Write(create_qr_database(reference, ts))
    /\ idx' = idx + 1
    /\ ts' \in {ts, ts + 1}
    /\ pc' = "start"
    /\ UNCHANGED <<encoder, qr_data, parsed, reference, sweep, structure, grid,
                   best_match>>

\* RiseGymQRAnalyzer.predict_qr_data: facility, date, slot hour, 00 and the
\* suffix of the slot
predict_qr_data(dt) ==
    LET slot_hour == (dt.hour \div 2) * 2
        suffix == IF slot_hour = 0 THEN <<"0", "1">> ELSE <<"0", "0">>
    IN FacilityCode \o StrfMDY(dt) \o Pad2(slot_hour) \o <<"0", "0">> \o suffix

\* RiseGymQRAnalyzer.analyze_directory: files_analyzed counts every svg file;
\* analyze_filename gives a datetime for a stem of 12 digits, raising
\* ValueError when they are no date-time, and None for any other stem;
\* pattern_confirmed stays as initialised
analyze_directory(directory) ==
    LET base(f) == SubSeq(f.name, 1, Len(f.name) - 4)
        named(f) == Len(base(f)) = 12 /\ \A k \in 1..12 : base(f)[k] \in DigitSet
        date_range(dated) ==
            LET Iso(range) ==
                    IF range.min = None THEN range
                    ELSE [min |-> IsoFormat(range.min), max |-> IsoFormat(range.max)]
                Earlier(S) == {p \in S \X S : Before(p[1], p[2])}
                Dated(dts) ==
                    Iso(RunningRange(dts, Earlier({dts[k] : k \in 1..Len(dts)})))
            IN Dated([k \in 1..Len(dated) |-> StrpStem(base(dated[k]))] \o <<>>)
        Collect(svg_files, dated) ==
            [files_analyzed |-> Len(svg_files),
             pattern_confirmed |-> TRUE,
             date_range |-> date_range(dated),
             time_slots |->
                [slot_hour \in {(StrpStem(base(dated[k])).hour \div 2) * 2 :
                                   k \in 1..Len(dated)} |->
                    Cardinality({k \in 1..Len(dated) :
                        (StrpStem(base(dated[k])).hour \div 2) * 2 = slot_hour})],
             predictions |->
                [k \in 1..Len(dated) |->
                    [filename |-> dated[k].name,
                     datetime |-> IsoFormat(StrpStem(base(dated[k]))),
                     predicted_data |-> predict_qr_data(StrpStem(base(dated[k])))]]]
        Scan(svg_files) ==
            IF \E k \in 1..Len(svg_files) :
                  named(svg_files[k]) /\ ~ValidDateTime(StrpStem(base(svg_files[k])))
            THEN [raised |-> TRUE]
            ELSE [raised |-> FALSE,
                  results |-> Collect(svg_files, SelectSeq(svg_files, named))]
    IN Scan(SortedFiles(directory))

\* main of qr_analyzer.py: analyze_directory, then save_analysis writes the
\* results with the analysis date
AnalyzeDirectory ==
    /\ pc = "start" /\ sweep = "analyzer" /\ idx < MaxRuns
    /\ LET Save(run) ==
               IF run.raised
               THEN /\ exc' = "ValueError" /\ report' = None
                    /\ UNCHANGED evaluated
               ELSE /\ evaluated' = evaluated \o
                          <<[run |-> idx + 1, file |-> "qr_analysis_results.json",
                             content |->
                                [analysis_date |-> ts,
                                 files_analyzed |-> run.results.files_analyzed,
                                 pattern_confirmed |-> run.results.pattern_confirmed,
                                 date_range |-> run.results.date_range,
                                 time_slots |-> run.results.time_slots,
                                 predictions |-> run.results.predictions]]>>
                    /\ exc' = "none" /\ report' = run.results
       IN Save(analyze_directory(reference))
    /\ idx' = idx + 1
    /\ ts' \in {ts, ts + 1}
    /\ pc' = "start"
    /\ UNCHANGED <<encoder, qr_data, parsed, reference, sweep, structure, grid,
                   best_match, skipped>>

\* SimpleQRAnalyzer.find_patterns_across_files over the analyses of payloads
\* of 18 characters that start with 9268: the distinct payloads, the counts
\* per slot and per suffix, and the range of the date fields, which are
\* compared as the strings they are
find_patterns_across_files(analyses) ==
    LET Count(keys) == [key \in {keys[k] : k \in 1..Len(keys)} |->
                           Cardinality({k \in 1..Len(keys) : keys[k] = key})]
        Less(S) == {p \in S \X S : StrLess(p[1], p[2])}
        Dates(dates) == RunningRange(dates, Less({dates[k] : k \in 1..Len(dates)}))
    IN [time_slots |-> Count([k \in 1..Len(analyses) |-> Slice(analyses[k].data, 12, 14)]),
        suffixes |-> Count([k \in 1..Len(analyses) |-> Slice(analyses[k].data, 14, 18)]),
        unique_data |-> {analyses[k].data : k \in 1..Len(analyses)},
        date_range |->
            Dates([k \in 1..Len(analyses) |-> Slice(analyses[k].data, 4, 12)] \o <<>>)]

\* analyze_all_qrs of qr_decoder_simple.py: the expected payload of every stem
\* of 12 digits is built from the stem's characters without a date check; the
\* results and the report are written, each with its own reading of the clock,
\* and state that all QR codes follow the format
AnalyzeAllQRs ==
    /\ pc = "start" /\ sweep = "simple" /\ idx < MaxRuns
    /\ \E tick \in {0, 1} :
          LET filename(f) == SubSeq(f.name, 1, Len(f.name) - 4)
              extract_svg_data(f) ==
                  LET hour_int == IntOf(Slice(filename(f), 8, 10))
                  IN FacilityCode \o Slice(filename(f), 4, 6) \o Slice(filename(f), 6, 8)
                     \o Slice(filename(f), 0, 4) \o Pad2((hour_int \div 2) * 2)
                     \o (IF hour_int >= 0 /\ hour_int <= 1
                         THEN <<"0", "0", "0", "1">> ELSE <<"0", "0", "0", "0">>)
              Write(all_analyses, cross_patterns) ==
                  /\ evaluated' = evaluated \o
                        <<[run |-> idx + 1, file |-> "qr_pattern_analysis.json",
                           content |-> [analyzed_at |-> ts,
                                        total_files |-> Len(all_analyses),
                                        cross_patterns |->
                                           [time_slots |-> cross_patterns.time_slots,
                                            suffixes |-> cross_patterns.suffixes,
                                            date_range |-> cross_patterns.date_range],
                                        detailed_analyses |-> all_analyses]],
                          [run |-> idx + 1, file |-> "qr_analysis_summary.md",
                           content |-> [generated |-> ts + tick,
                                        total_files |-> Len(all_analyses),
                                        time_slots |-> cross_patterns.time_slots]]>>
                  /\ report' = [total_files |-> Len(all_analyses),
                                pattern_confirmed |-> TRUE,
                                unique_data |-> cross_patterns.unique_data,
                                date_range |-> cross_patterns.date_range,
                                detailed_analyses |-> all_analyses]
              Patterns(all_analyses) ==
                  Write(all_analyses, find_patterns_across_files(all_analyses))
              Analyze(svg_files) ==
                  Patterns([k \in 1..Len(svg_files) |->
                               [filename |-> svg_files[k].name,
                                data |-> extract_svg_data(svg_files[k])]] \o <<>>)
          IN /\ Analyze(SelectSeq(
                    SortedFiles(reference),
                    LAMBDA f : /\ Len(filename(f)) = 12
                               /\ \A k \in 1..12 : filename(f)[k] \in DigitSet))
             /\ ts' \in {ts + tick, ts + tick + 1}
    /\ idx' = idx + 1
    /\ exc' = "none"
    /\ pc' = "start"
    /\ UNCHANGED <<encoder, qr_data, parsed, reference, sweep, structure, grid,
                   best_match, skipped>>

NextCorpus ==
    \/ CreateQRDatabase
    \/ AnalyzeDirectory
    \/ AnalyzeAllQRs

SpecCorpus == InitCorpus /\ [][NextCorpus]_vars

-----------------------------------------------------------------------------
(* Extracting the reference raster of a capture: load_qr_image of          *)
(* qr_deep_analyzer.py and load_reference_qr of qr_perfect_match.py. In    *)
(* these runs reference is what the two regular expressions find in the    *)
(* SVG text, and a raster is its side and the set of its black pixels.     *)

\* generate_svg_native of the core generator (version 1, level Q, 20 pixels a
\* module, border 4) as what the extraction finds in its text: the viewBox,
\* the white rect of the background and one black rect for each dark entry of
\* get_matrix(); data is the payload it was generated for
generate_svg_native(data) ==
    LET modules == GetMatrix(data, 1, "Q", 4)
        module_count == Cardinality(DOMAIN modules)
        width == (module_count + 4 * 2) * 20
    IN [png |-> None, viewBox |-> [width |-> width, height |-> width],
        rects |->
           {[x |-> 0, y |-> 0, w |-> width, h |-> width, color |-> "FFFFFF"]}
           \cup {[x |-> (p[2] + 4) * 20, y |-> (p[1] + 4) * 20, w |-> 20, h |-> 20,
                  color |-> "000000"] :
                   p \in {q \in (0..(module_count - 1)) \X (0..(module_count - 1)) :
                             modules[q[1]][q[2]]}},
        data |-> data]

\* the captures: with or without a base64 PNG data URI, which decodes to an
\* image or does not; with or without a viewBox; with black and white rects;
\* and the native SVGs generated for two payloads
InitExtract ==
    /\ pc = "start"
    /\ ts = None /\ encoder = "none" /\ qr_data = <<>> /\ parsed = None
    /\ \/ \E png \in {None, [decodes |-> FALSE],
                      [decodes |-> TRUE, size |-> 3, black |-> {<<0, 0>>, <<2, 1>>}]},
             viewBox \in {None, [width |-> 4, height |-> 4], [width |-> 6, height |-> 6]},
             rects \in SUBSET {[x |-> 0, y |-> 0, w |-> 1, h |-> 1, color |-> "000000"],
                               [x |-> 4, y |-> 2, w |-> 1, h |-> 1, color |-> "000000"],
                               [x |-> 2, y |-> 2, w |-> 1, h |-> 1, color |-> "FFFFFF"]} :
             reference = [png |-> png, viewBox |-> viewBox, rects |-> rects]
       \/ \E data \in {Payload_0000, Payload_0748} :
             reference = generate_svg_native(data)
    /\ sweep = "none" /\ structure = None /\ grid = <<>> /\ idx = 0
    /\ best_match = None /\ evaluated = <<>> /\ skipped = <<>>
    /\ report = None /\ exc = "none"

\* load_qr_image: the embedded PNG is decoded and opened, which raises when the
\* data is no image; else a white image of the viewBox's size, 580 without a
\* viewBox, on which every rect of color 000000 is drawn from (x, y) to
\* (x + w, y + h), both included
LoadQRImage ==
    /\ pc = "start"
    /\ sweep' = "load_qr_image"
    /\ IF reference.png # None
       THEN IF reference.png.decodes
            THEN /\ report' = [size |-> reference.png.size,
                               black |-> reference.png.black]
                 /\ exc' = "none"
            ELSE /\ report' = None
                 /\ exc' \in {"binascii.Error", "UnidentifiedImageError"}
       ELSE LET width == IF reference.viewBox # None THEN reference.viewBox.width
                         ELSE 580
                height == IF reference.viewBox # None THEN reference.viewBox.height
                          ELSE 580
            IN /\ report' =
                    [size |-> width,
                     black |-> UNION {{p \in (r.x..(r.x + r.w)) \X (r.y..(r.y + r.h)) :
                                          p[1] < width /\ p[2] < height} :
                                      r \in {q \in reference.rects : q.color = "000000"}}]
               /\ exc' = "none"
    /\ pc' = "done"
    /\ UNCHANGED <<ts, encoder, qr_data, parsed, reference, structure, grid, idx,
                   best_match, evaluated, skipped>>

\* load_reference_qr: the embedded PNG is decoded and opened; for a native SVG
\* ImageDraw.Draw raises NameError, the module importing Image only
LoadReferenceQR ==
    /\ pc = "start"
    /\ sweep' = "load_reference_qr"
    /\ IF reference.png # None
       THEN IF reference.png.decodes
            THEN /\ report' = [size |-> reference.png.size,
                               black |-> reference.png.black, type |-> "embedded"]
                 /\ exc' = "none"
            ELSE /\ report' = None
                 /\ exc' \in {"binascii.Error", "UnidentifiedImageError"}
       ELSE /\ report' = None
            /\ exc' = "NameError"
    /\ pc' = "done"
    /\ UNCHANGED <<ts, encoder, qr_data, parsed, reference, structure, grid, idx,
                   best_match, evaluated, skipped>>

NextExtract ==
    \/ LoadQRImage
    \/ LoadReferenceQR

SpecExtract == InitExtract /\ [][NextExtract]_vars

-----------------------------------------------------------------------------
(* Publishing a capture: main of src/src/utils/firebase_uploader.py and    *)
(* the script upload_latest_to_firebase.py, which derive the pattern they   *)
(* publish from the stem of the latest capture, and upload_single_as_latest *)
(* of upload_to_firebase.py. In these runs ts is the time of the capture,   *)
(* which names the file, and in upload_single_as_latest the clock's first   *)
(* reading; report is the metadata published.                               *)

InitUpload ==
    /\ pc = "input"
    /\ ts \in {t \in Timestamps : t.tzinfo = None /\ ValidDate(t.year, t.month, t.day)}
    /\ encoder = "none"
    /\ qr_data = <<>>
    /\ parsed = None
    /\ NoSearch

\* the pattern both uploaders build from the stem of the latest capture,
\* YYYYMMDDHHMMSS: 9268, the date, then the hour and 0000 for an even hour,
\* the hour before and 0001 for an odd one
uploader_pattern(timestamp) ==
    LET dt == StrpStem(timestamp)
        hour == dt.hour
    IN FacilityCode \o StrfMDY(dt)
       \o (IF hour % 2 = 0
           THEN Pad2(hour) \o <<"0", "0">> \o (IF hour = 0 THEN <<"0", "0">> ELSE <<"0", "0">>)
           ELSE Pad2(hour - 1) \o <<"0", "0">> \o <<"0", "1">>)

\* main of firebase_uploader.py on the capture the scraper wrote at ts
UploaderMain ==
    /\ pc = "input"
    /\ qr_data' = uploader_pattern(StrfStem(ts) \o <<"0", "0">>)
    /\ encoder' = "uploader"
    /\ pc' = "encoded"
    /\ UNCHANGED <<ts, parsed, searchVars>>

\* upload_latest_to_firebase.py on the capture the scraper wrote at ts
UploadLatest ==
    /\ pc = "input"
    /\ qr_data' = uploader_pattern(StrfStem(ts) \o <<"0", "0">>)
    /\ encoder' = "upload_latest"
    /\ pc' = "encoded"
    /\ UNCHANGED <<ts, parsed, searchVars>>

\* upload_single_as_latest: the slot and the next slot's hour come from one
\* reading of the clock, the date of expires_at from a second one, which is
\* the first or a minute later
UploadSingleAsLatest ==
    /\ pc = "input"
    /\ \E now \in {ts, IF ts.minute = 59 THEN ShiftHours([ts EXCEPT !.minute = 0], 1)
                       ELSE [ts EXCEPT !.minute = ts.minute + 1]} :
          LET current_hour == ts.hour
              slot_hour == (current_hour \div 2) * 2
              next_slot_hour == ((current_hour \div 2) + 1) * 2
          IN report' = [timeSlot |-> Pad2(slot_hour) \o <<":", "0", "0", "-">>
                                     \o Pad2(slot_hour + 1) \o <<":", "5", "9">>,
                        expiresAt |-> [now EXCEPT !.hour = next_slot_hour % 24,
                                                  !.minute = 0],
                        uploadedAt |-> now]
    /\ sweep' = "latest"
    /\ pc' = "uploaded"
    /\ UNCHANGED <<ts, encoder, qr_data, parsed, reference, structure, grid, idx,
                   best_match, evaluated, skipped, exc>>

NextUpload ==
    \/ UploaderMain
    \/ UploadLatest
    \/ UploadSingleAsLatest

SpecUpload == InitUpload /\ [][NextUpload]_vars

-----------------------------------------------------------------------------
(* Seeding the parameters from a reference raster: analyze_qr_structure of *)
(* qr_deep_analyzer.py, QRPerfectCloner.analyze_reference_qr with          *)
(* generate_exact_qr of qr_perfect_clone.py, and the grid of               *)
(* ExactQRMatcher.find_exact_parameters. In these runs structure is what    *)
(* the analysis returns and best_match the parameters the clone is         *)
(* rendered with.                                                          *)

\* the references analysed: those of the searches, a render with box size 6
\* resampled from 126 to 123 pixels, whose finder pattern is 41 pixels wide
\* in its first row, and a render with box size 11, where the row ten pixels
\* below the first is still the finder pattern's first module row
SeedCases ==
    SearchCases
    \cup {[qr_data |-> Payload_0000,
           reference |-> Reference(Payload_0000, Params(1, "L", 6, 0), 123, None)],
          [qr_data |-> Payload_0000,
           reference |-> Rendered(Payload_0000, Params(1, "L", 11, 1))]}

InitSeed ==
    /\ pc = "start"
    /\ ts = None /\ encoder = "none" /\ parsed = None
    /\ \E case \in SeedCases : qr_data = case.qr_data /\ reference = case.reference
    /\ sweep = "none" /\ structure = None /\ grid = <<>> /\ idx = 0
    /\ best_match = None /\ evaluated = <<>> /\ skipped = <<>>
    /\ report = None /\ exc = "none"

\* the bounds of the pixels of img that dark holds: min and max of
\* np.where(...), None when there is none
DarkBounds(img, dark) ==
    LET coords == 0..(img.size - 1)
        Bounds(rows, cols) ==
            IF rows = {} THEN None
            ELSE [min_y |-> SetMin(rows), max_y |-> SetMax(rows),
                  min_x |-> SetMin(cols), max_x |-> SetMax(cols)]
    IN Bounds({y \in coords : \E x \in coords : img.px[y][x] \in dark},
              {x \in coords : \E y \in coords : img.px[y][x] \in dark})

\* the length of the first run of dark pixels of row y among the columns
\* x0..x1, after any light pixels before it; 0 when the columns hold none
FirstRun(img, dark, y, x0, x1) ==
    LET Run(cols) ==
            IF cols = {} THEN 0
            ELSE Cardinality({x \in SetMin(cols)..x1 :
                                 \A w \in SetMin(cols)..x : img.px[y][w] \in dark})
    IN Run({x \in x0..x1 : img.px[y][x] \in dark})


\* analyze_qr_structure of qr_deep_analyzer.py: dark is below 128; the first
\* dark run of the first row of the QR region, divided by 7, gives the module
\* size, which is 1 when that is 0; the region's width gives the module
\* count, and the count the version
deep_analyze_qr_structure(img) ==
    LET SeedModuleSize(black_run) ==
            IF black_run \div 7 = 0 THEN 1 ELSE black_run \div 7
        Seed(b) ==
            IF b = None THEN None
            ELSE LET Sized(qr_width, module_size) ==
                         [module_size |-> module_size,
                          modules |-> qr_width \div module_size,
                          version |-> ((qr_width \div module_size) - 17) \div 4,
                          black_run |-> FirstRun(img, 0..127, b.min_y, b.min_x, b.max_x),
                          qr_size |-> qr_width,
                          quiet_zone |-> b.min_x,
                          quiet_zone_modules |-> b.min_x \div module_size]
                 IN Sized(b.max_x - b.min_x + 1,
                          SeedModuleSize(FirstRun(img, 0..127, b.min_y, b.min_x, b.max_x)))
    IN Seed(DarkBounds(img, 0..127))

\* QRPerfectCloner.analyze_reference_qr: dark is exactly 0; finder_width is the
\* dark run of row min_y from min_x, max_x excluded; the run that gives the
\* module size is read ten rows below, within finder_width columns, which
\* raises IndexError past the last row
analyze_reference_qr(img) ==
    LET Seed(b) ==
            IF b = None THEN None
            ELSE LET Sized(qr_width, black_run) ==
                         LET module_size == IF black_run > 0 THEN black_run \div 7
                                            ELSE qr_width \div 21
                             modules == IF module_size > 0 THEN qr_width \div module_size
                                        ELSE 21
                         IN [module_size |-> module_size,
                             modules |-> modules,
                             version |-> VersionOfModules(modules),
                             black_run |-> black_run,
                             qr_size |-> qr_width,
                             quiet_zone |-> b.min_x,
                             image_size |-> img.size]
                     Sampled(finder_width) ==
                         IF finder_width > 0 /\ b.min_y + 10 >= img.size
                         THEN [error |-> "IndexError"]
                         ELSE Sized(b.max_x - b.min_x + 1,
                                    IF finder_width = 0 THEN 0
                                    ELSE FirstRun(img, {0}, b.min_y + 10, b.min_x,
                                                  b.min_x + finder_width - 1))
                 IN Sampled(IF img.px[b.min_y][b.min_x] # 0 THEN 0
                            ELSE FirstRun(img, {0}, b.min_y, b.min_x, b.max_x - 1))
    IN Seed(DarkBounds(img, {0}))

\* the deep analysis of the reference
AnalyzeQRStructure ==
    /\ pc = "start"
    /\ sweep' = "deep"
    /\ structure' = deep_analyze_qr_structure(reference.img)
    /\ pc' = "done"
    /\ UNCHANGED <<ts, encoder, qr_data, parsed, reference, grid, idx, best_match,
                   evaluated, skipped, report, exc>>

\* clone_qr up to the analysis of the extracted reference
AnalyzeReferenceQR ==
    /\ pc = "start"
    /\ sweep' = "clone"
    /\ LET Keep(ref_params) ==
               IF ref_params # None /\ "error" \in DOMAIN ref_params
               THEN structure' = None /\ exc' = ref_params.error /\ pc' = "raised"
               ELSE structure' = ref_params /\ exc' = exc /\ pc' = "analysed"
       IN Keep(analyze_reference_qr(reference.img))
    /\ UNCHANGED <<ts, encoder, qr_data, parsed, reference, grid, idx, best_match,
                   evaluated, skipped, report>>

\* QRPerfectCloner.generate_exact_qr with the analysed parameters: the border
\* is quiet_zone // module_size, the level is L, and the constructor and
\* make(fit=False) may raise (the payloads analysed fit every version above
\* those tabulated); without parameters version 1, box size 40 and border 4
\* are used
GenerateExactQR ==
    /\ pc = "analysed" /\ sweep = "clone"
    /\ IF structure # None /\ structure.module_size = 0
       THEN exc' = "ZeroDivisionError" /\ pc' = "raised" /\ best_match' = best_match
       ELSE LET Render(P) ==
                    /\ best_match' = P
                    /\ IF ConstructorRaises(P.version, P.box_size, P.border)
                       THEN exc' = "ValueError" /\ pc' = "raised"
                       ELSE IF /\ P.version <= Len(DataCodewords)
                               /\ DataOverflow(qr_data, P.version, "L")
                       THEN exc' = "DataOverflowError" /\ pc' = "raised"
                       ELSE exc' = exc /\ pc' = "done"
            IN Render(IF structure = None THEN Params(1, "L", 40, 4)
                      ELSE Params(structure.version, "L", structure.module_size,
                                  structure.quiet_zone \div structure.module_size))
    /\ UNCHANGED <<ts, encoder, qr_data, parsed, reference, sweep, structure, grid, idx,
                   evaluated, skipped, report>>

NextSeed ==
    \/ AnalyzeQRStructure
    \/ AnalyzeReferenceQR
    \/ GenerateExactQR
    \/ FindExactParameters

SpecSeed == InitSeed /\ [][NextSeed]_vars

-----------------------------------------------------------------------------
(* The hourly monitor: QRHourlyMonitor.collect_qr_sample of                *)
(* qr_hourly_monitor.py with extract_qr_svg and compare_with_previous. In  *)
(* these runs structure is the tracked state (last_hash, change_count,     *)
(* total_samples), evaluated the hashes of the samples saved, in order,    *)
(* idx the attempts made, and report the result of the last attempt with   *)
(* the tracked state before it. The MD5 of a page's SVG stands for the SVG. *)

\* the collection attempts of one monitor
MaxAttempts == 4

\* a monitor that starts without a state file and without captures
InitMonitor ==
    /\ pc = "start"
    /\ ts = None /\ encoder = "none" /\ qr_data = <<>> /\ parsed = None
    /\ reference = None /\ sweep = "monitor"
    /\ structure = [last_hash |-> "None", change_count |-> 0, total_samples |-> 0]
    /\ grid = <<>> /\ idx = 0
    /\ best_match = None /\ evaluated = <<>> /\ skipped = <<>>
    /\ report = None /\ exc = "none"

\* compare_with_previous: FIRST without a last hash, SAME for the last hash,
\* else DIFFERENT, which increments change_count at once
compare_with_previous(tracked, current_hash) ==
    IF tracked.last_hash = "None" THEN [tracked |-> tracked, status |-> "FIRST"]
    ELSE IF current_hash = tracked.last_hash THEN [tracked |-> tracked, status |-> "SAME"]
    ELSE [tracked |-> [tracked EXCEPT !.change_count = @ + 1], status |-> "DIFFERENT"]

\* collect_qr_sample: the driver or the login fails, or the page shows no svg
\* or one shorter than 1000 characters, and nothing is done; else
\* extract_qr_svg hashes the svg, compares it, writes the file, which may
\* raise and end the attempt without a result, and then updates last_hash and
\* total_samples (the PNG conversion, save_state and update_database catch
\* their own exceptions)
CollectQRSample ==
    /\ pc = "start" /\ sweep = "monitor" /\ idx < MaxAttempts
    /\ \E page \in {"unreachable", "short", "h1", "h2"}, written \in BOOLEAN :
          IF page \in {"unreachable", "short"}
          THEN /\ report' = [result |-> None, compared |-> FALSE, before |-> structure]
               /\ UNCHANGED <<structure, evaluated>>
          ELSE LET Save(comparison) ==
                       IF written
                       THEN /\ structure' = [comparison.tracked EXCEPT
                                                !.last_hash = page,
                                                !.total_samples = @ + 1]
                            /\ evaluated' = Append(evaluated, page)
                            /\ report' = [result |-> [hash |-> page,
                                                      comparison |-> comparison.status,
                                                      saved |-> TRUE],
                                          compared |-> TRUE, before |-> structure]
                       ELSE /\ structure' = comparison.tracked
                            /\ evaluated' = evaluated
                            /\ report' = [result |-> None, compared |-> TRUE,
                                          before |-> structure]
               IN Save(compare_with_previous(structure, page))
    /\ idx' = idx + 1
    /\ UNCHANGED <<pc, ts, encoder, qr_data, parsed, reference, sweep, grid,
                   best_match, skipped, exc>>

SpecMonitor == InitMonitor /\ [][CollectQRSample]_vars

-----------------------------------------------------------------------------
(* The analysis log: main and update_analysis_log of                       *)
(* .github/scripts/decode_latest_qr.py. In these runs structure is the     *)
(* content of scraped_qr_codes/analysis_log.json (None while the file is   *)
(* absent), evaluated the results passed to update_analysis_log, in order, *)
(* and idx the runs of the script. A result is told from the others by the *)
(* clock reading it carries, modelled as its ordinal among the results.    *)

\* the runs of the script
MaxCalls == 104

\* log['entries'][-100:]
KeepEntries == 100

\* no log file yet
InitLog ==
    /\ pc = "start"
    /\ ts = None /\ encoder = "none" /\ qr_data = <<>> /\ parsed = None
    /\ reference = None /\ sweep = "log"
    /\ structure = None
    /\ grid = <<>> /\ idx = 0
    /\ best_match = None /\ evaluated = <<>> /\ skipped = <<>>
    /\ report = None /\ exc = "none"

\* update_analysis_log that keeps the first entries of the log
update_analysis_log_head(log_file, result) ==
    LET log == IF log_file # None THEN log_file ELSE [entries |-> <<>>]
        Keep(entries) == SubSeq(entries, 1, Min(Len(entries), KeepEntries))
    IN [entries |-> Keep(Append(log.entries, result))]

\* update_analysis_log: the file written from the file read, the result
\* appended and the last 100 entries kept
update_analysis_log(log_file, result) ==
    LET log == IF log_file # None THEN log_file ELSE [entries |-> <<>>]
        Keep(entries) == SubSeq(entries, Max(1, Len(entries) - KeepEntries + 1),
                                Len(entries))
    IN [entries |-> Keep(Append(log.entries, result))]

\* main: without a capture, or with a latest capture whose name is not
\* qr_*.svg, the log is left alone; else the result of decode_qr_from_file
\* is logged
DecodeLatest ==
    /\ pc = "start" /\ sweep = "log" /\ idx < MaxCalls
    /\ \E analysed \in BOOLEAN :
          IF analysed
          THEN LET result == [timestamp |-> Len(evaluated) + 1]
               IN /\ structure' = update_analysis_log(structure, result)
                  /\ evaluated' = Append(evaluated, result)
          ELSE UNCHANGED <<structure, evaluated>>
    /\ idx' = idx + 1
    /\ UNCHANGED <<pc, ts, encoder, qr_data, parsed, reference, sweep, grid,
                   best_match, skipped, report, exc>>

SpecLog == InitLog /\ [][DecodeLatest]_vars

-----------------------------------------------------------------------------
(* Properties of the payload encoders and the parser.                      *)

NaiveAt(y, m, d, h, mi) ==
    [year |-> y, month |-> m, day |-> d, hour |-> h, minute |-> mi, tzinfo |-> None]

\* the datetime whose fields an encoder reads: the core encoder reads the
\* Eastern wall-clock time, the others the datetime's own fields
FieldsRead == IF encoder = "core" THEN ToEastern(ts) ELSE ts

RecoversFieldsOf(e) ==
    /\ parsed # None
    /\ parsed.facility = <<"9", "2", "6", "8">>
    /\ Len(parsed.date) = 10 /\ parsed.date[3] = "/" /\ parsed.date[6] = "/"
    /\ IntOf(SubSeq(parsed.date, 1, 2)) = e.month
    /\ IntOf(SubSeq(parsed.date, 4, 5)) = e.day
    /\ IntOf(SubSeq(parsed.date, 7, 10)) = e.year
    /\ IntOf(SubSeq(parsed.time, 1, 2)) = 2 * (e.hour \div 2)
    /\ SubSeq(parsed.time, 4, 5) \o SubSeq(parsed.time, 7, 8)
          = (IF e.hour \div 2 = 0 THEN <<"0", "0", "0", "1">> ELSE <<"0", "0", "0", "0">>)

\* C3 as stated: for every timestamp, naive or aware, parsing the core
\* encoder's payload recovers the timestamp's own date, bucket and suffix.
C3_RoundTripOwnFields ==
    (pc = "decoded" /\ encoder = "core") => RecoversFieldsOf(ts)

\* C3 as amended: parsing the core encoder's payload recovers facility 9268
\* and the date, bucket and suffix of the timestamp as expressed in the
\* facility's time zone: a naive timestamp's own fields, an aware timestamp's
\* fields after conversion to America/New_York.
C3_RoundTripEastern ==
    (pc = "decoded" /\ encoder = "core") =>
        IF ts.tzinfo = None THEN RecoversFieldsOf(ts)
        ELSE RecoversFieldsOf(ToEastern(ts))

C3_Witness ==
    /\ pc = "decoded" /\ encoder = "core"
    /\ ts.tzinfo # None
    /\ ts.day = 1 /\ ts.hour = 2
    /\ parsed # None
    /\ IntOf(SubSeq(parsed.date, 4, 5)) # ts.day
    /\ IntOf(SubSeq(parsed.time, 1, 2)) = 2 * (ToEastern(ts).hour \div 2)

\* C24: for every capture timestamp, of every hour, the pattern string the
\* uploader publishes with the capture is the payload of the core encoder
\* for that timestamp.
C24_PatternIsPayload ==
    (encoder \in {"uploader", "upload_latest"} /\ pc = "encoded") =>
        qr_data = generate_qr_data(ts)

\* C29: the expiresAt of upload_single_as_latest is the start of the 2-hour
\* block after the one of the upload and is later than the upload time, also
\* for uploads from 22:00 to 23:59, whose next block starts on the day after.
C29_ExpiresAtNextBlock ==
    (sweep = "latest" /\ pc = "uploaded") =>
        /\ Before(report.uploadedAt, report.expiresAt)
        /\ report.expiresAt
              = ShiftHours([report.uploadedAt EXCEPT
                               !.hour = (report.uploadedAt.hour \div 2) * 2,
                               !.minute = 0], 2)

-----------------------------------------------------------------------------
(* Properties of the parameter search, its callers and the level sweeps.   *)

\* the reference is the render of the searched payload, as rendered
SelfConsistent ==
    /\ reference.data = qr_data
    /\ reference.flip = None
    /\ reference.img.size = NaturalSize(reference.params)

\* find_exact_parameters has returned
SearchReturned == sweep = "exact" /\ pc = "done"

\* some evaluated combination reached the threshold
ThresholdReached ==
    \E k \in 1..Len(evaluated) : AtLeastTenths(evaluated[k].similarity, 999)

\* C4 as stated: the search on a payload and its own render under P returns a
\* result of similarity >= 99.9 whose parameters are P.
C4_ReturnsP ==
    (SearchReturned /\ SelfConsistent) =>
        /\ best_match # None
        /\ AtLeastTenths(best_match.similarity, 999)
        /\ best_match.params = reference.params

\* C4, amended: the search on a payload and its own render under P returns a
\* pixel-identical result with P's version, level and border; its box size is
\* P's only when that is 1, and otherwise one less, the first entry of the
\* grid, whose render resized to the reference is the same raster.
C4_ReturnsFirstIdentical ==
    (SearchReturned /\ SelfConsistent) =>
        /\ best_match # None
        /\ AtLeastTenths(best_match.similarity, 999)
        /\ best_match.similarity.matching = best_match.similarity.total
        /\ best_match.params =
              [reference.params EXCEPT !.box_size = IF @ >= 2 THEN @ - 1 ELSE @]

C4_Witness ==
    /\ SearchReturned /\ SelfConsistent
    /\ reference.params.box_size >= 2
    /\ reference.params.version = 2
    /\ best_match # None /\ best_match.params.box_size = reference.params.box_size - 1

\* C5: the sweep ends at the first combination that reaches 99.9: it is the
\* last one rendered or compared, nothing of the grid after it is touched, and
\* it is the result returned.
C5_EarlyExit ==
    sweep = "exact" =>
        \A k \in 1..Len(evaluated) :
            AtLeastTenths(evaluated[k].similarity, 999) =>
                /\ k = Len(evaluated)
                /\ pc \in {"done", "reported"}
                /\ grid[idx] = evaluated[k].combo
                /\ Len(evaluated) + Len(skipped) = idx
                /\ best_match = [params |-> evaluated[k].combo,
                                 similarity |-> evaluated[k].similarity]

C5_Witness ==
    /\ SearchReturned /\ ThresholdReached
    /\ idx < Len(grid)
    /\ Len(evaluated) > 1

\* the evaluated combination the sweep keeps when none reaches the threshold:
\* the first of the highest similarity
FirstHighest ==
    CHOOSE k \in 1..Len(evaluated) :
        /\ \A j \in 1..Len(evaluated) :
               ~SimilarityGreater(evaluated[j].similarity, evaluated[k].similarity)
        /\ \A j \in 1..(k - 1) :
               SimilarityGreater(evaluated[k].similarity, evaluated[j].similarity)

\* C6 as stated: when no combination reaches the threshold the search returns
\* the highest-scoring of the evaluated results, and never an empty one.
C6_AlwaysAResult ==
    (SearchReturned /\ ~ThresholdReached) =>
        /\ best_match # None
        /\ \A k \in 1..Len(evaluated) :
               ~SimilarityGreater(evaluated[k].similarity, best_match.similarity)

\* C6, amended: when no combination reaches the threshold the search raises
\* nothing and returns the first highest-scoring of the evaluated results,
\* below the threshold, provided the reference could be analysed and some
\* combination rendered and agreed with it in a pixel; otherwise it returns
\* nothing.
C6_BestOrNothing ==
    (SearchReturned /\ ~ThresholdReached) =>
        /\ exc = "none"
        /\ idx = Len(grid)
        /\ IF \E k \in 1..Len(evaluated) : evaluated[k].similarity.matching > 0
           THEN /\ best_match = [params |-> evaluated[FirstHighest].combo,
                                 similarity |-> evaluated[FirstHighest].similarity]
                /\ ~AtLeastTenths(best_match.similarity, 999)
           ELSE best_match = None

C6_Witness ==
    /\ SearchReturned /\ ~ThresholdReached
    /\ best_match # None
    /\ Len(evaluated) > 1 /\ skipped # <<>>

\* a result reached the threshold
Reached(result) == result # None /\ AtLeastTenths(result.similarity, 999)

\* C7 as stated: reducing the results of the combinations in another order
\* gives the same parameters and similarity.
C7_OrderIndependent ==
    (SearchReturned /\ structure # None) =>
        Reduce(Reverse(AllResults)) = Reduce(AllResults)

\* C7, amended: taken in the grid's order the reduction is what the search
\* returns; in the grid's order and in the reverse order alike, it reaches the
\* threshold exactly when some combination does, and when none does, it has
\* the highest similarity of all the results. The parameters returned are
\* those of the order's first such result and differ between orders.
C7_OrderFreeSimilarity ==
    (SearchReturned /\ structure # None) =>
        LET results == AllResults
            forward == Reduce(results)
            backward == Reduce(Reverse(results))
            some == \E k \in 1..Len(results) : AtLeastTenths(results[k].similarity, 999)
            highest(result) ==
                /\ (result = None) = (\A k \in 1..Len(results) :
                                          results[k].similarity.matching = 0)
                /\ \A k \in 1..Len(results) :
                       ~SimilarityGreater(results[k].similarity,
                           IF result = None THEN ZeroSimilarity ELSE result.similarity)
        IN /\ forward = best_match
           /\ Reached(forward) = some
           /\ Reached(backward) = some
           /\ ~some => highest(forward) /\ highest(backward)
           /\ ~some => (forward = None) = (backward = None)
           /\ (~some /\ forward # None) => forward.similarity = backward.similarity

C7_Witness ==
    /\ SearchReturned /\ structure # None
    /\ best_match # None
    /\ Reduce(Reverse(AllResults)) # best_match

\* C8: a result is reported as matched if and only if its similarity
\* exceeds 99.9.
C8_MatchedIffExceeds ==
    pc = "reported" /\ sweep \in {"exact", "validate"} =>
        (report.matched <=> ExceedsTenths(report.similarity, 999))

\* C9: a combination or level whose render fails for lack of capacity is
\* skipped: no sweep ends with the capacity error.
C9_CapacityFailureSkipped ==
    sweep \in {"exact", "ec"} => ~(pc = "raised" /\ exc = "DataOverflowError")

-----------------------------------------------------------------------------
\* C22 as stated: the search grid is exactly the cross product of the
\* analysed version and its neighbours, the four levels, the analysed module
\* size and its neighbours, and the analysed quiet zone in modules and its
\* neighbours.
C22_GridCrossProduct ==
    (sweep = "exact" /\ structure # None) =>
        LET base_border == structure.quiet_zone \div structure.module_size
            Around(n) == {n - 1, n, n + 1}
        IN /\ {grid[k] : k \in 1..Len(grid)}
                = {Params(v, ec, m, b) :
                      v \in Around(structure.version), ec \in {"L", "M", "Q", "H"},
                      m \in Around(structure.module_size), b \in Around(base_border)}
           /\ Len(grid) = 3 * 4 * 3 * 3

\* C22: the search grid is the analysed version alone with each of the four
\* levels, the analysed module size and its neighbours, and those of the
\* analysed quiet zone in modules and its neighbours that are not negative;
\* no combination occurs twice.
C22_GridAsBuilt ==
    (sweep = "exact" /\ structure # None) =>
        LET base_border == structure.quiet_zone \div structure.module_size
            Around(n) == {n - 1, n, n + 1}
            combos == {Params(structure.version, ec, m, b) :
                          ec \in {"L", "M", "Q", "H"},
                          m \in Around(structure.module_size),
                          b \in {c \in Around(base_border) : c >= 0}}
        IN /\ {grid[k] : k \in 1..Len(grid)} = combos
           /\ Len(grid) = Cardinality(combos)

C22_Witness ==
    /\ sweep = "exact" /\ structure # None
    /\ structure.quiet_zone \div structure.module_size = 0
    /\ Len(grid) = 24 /\ idx = Len(grid)

-----------------------------------------------------------------------------
(* Properties of rendering at a requested version.                         *)

\* C11: a symbol made for a requested version has that version, and the
\* version a result records is the version of the symbol that was compared.
C11_VersionKept ==
    sweep \in {"finder", "image"} =>
        /\ \A k \in 1..Len(evaluated) :
              /\ evaluated[k].combo.version # AutoVersion
                    => evaluated[k].symbol_version = evaluated[k].combo.version
              /\ evaluated[k].params.version = evaluated[k].symbol_version
        /\ best_match # None =>
              \E k \in 1..Len(evaluated) :
                  /\ best_match.params = evaluated[k].params
                  /\ best_match.similarity = evaluated[k].similarity
                  /\ best_match.params.version = evaluated[k].symbol_version
        /\ (pc = "raised") = (sweep = "image" /\ DataOverflow(qr_data, 1, "Q"))

C11_Witness ==
    /\ sweep = "finder" /\ pc = "done"
    /\ best_match # None
    /\ \E k \in 1..Len(skipped) :
          skipped[k].version = 1 /\ skipped[k].error_correction = "H"
    /\ \E k \in 1..Len(evaluated) : evaluated[k].combo.version = 1
    /\ \E k \in 1..Len(evaluated) :
          evaluated[k].combo.version = AutoVersion /\ evaluated[k].symbol_version = 2


-----------------------------------------------------------------------------
(* Properties of the geometry of the rendered symbol.                      *)

\* C12: a rendered image, raster or native SVG, is a square of side
\* (modules + 2*q)*m with modules = 4*v + 17 for version v, module size m and
\* quiet zone q, and the first module starts q*m from the top and the left.
C12_SquareGeometry ==
    (sweep = "geometry" /\ pc = "done") =>
        /\ report.side
              = (4 * report.version + 17 + 2 * report.border) * report.box_size
        /\ report.left = report.border * report.box_size
        /\ report.top = report.border * report.box_size

-----------------------------------------------------------------------------
(* Properties of the comparators.                                          *)

\* the reference a against b, the render of the payload with the parameters
\* and the gray level recorded, resampled by nearest neighbor to a's size: the
\* pixels that agree after the threshold (matching), the pixels whose gray
\* levels are equal (identical), and the sizes of a and b
Nearest ==
    LET a == reference.img
        b == Shaded(MakeImage(qr_data, report.other.version,
                              report.other.error_correction,
                              report.other.box_size, report.other.border),
                    report.dark)
        bsize == ImageSide(report.other.version, report.other.box_size,
                           report.other.border)
        at(k) == ((2 * k + 1) * bsize) \div (2 * a.size)
    IN [a_size |-> a.size, b_size |-> bsize,
        matching |->
           Cardinality({p \in (0..(a.size - 1)) \X (0..(a.size - 1)) :
                           (a.px[p[1]][p[2]] < 128) = (b.px[at(p[1])][at(p[2])] < 128)}),
        identical |->
           Cardinality({p \in (0..(a.size - 1)) \X (0..(a.size - 1)) :
                           a.px[p[1]][p[2]] = b.px[at(p[1])][at(p[2])]})]

\* C13 as stated: on rasters of different dimensions every comparator returns
\* the similarity between a and the nearest-neighbor resampling of b to a's
\* dimensions.
C13_ResamplesSecond ==
    (sweep = "compare" /\ pc = "done") =>
        LET n == Nearest
        IN n.a_size # n.b_size =>
              /\ report.similarity.matching = n.matching
              /\ report.similarity.total = n.a_size * n.a_size

\* C13: on rasters of different dimensions ExactQRMatcher.compare_images
\* returns the similarity between a and the nearest-neighbor resampling of b
\* to a's dimensions; compare_qr_images of qr_parameter_finder.py and
\* compare_images of qr_perfect_match.py return 0 without resampling.
C13_ResamplesOrZero ==
    (sweep = "compare" /\ pc = "done") =>
        LET n == Nearest
        IN n.a_size # n.b_size =>
              IF report.comparator = "exact_matcher"
              THEN /\ report.similarity.matching = n.matching
                   /\ report.similarity.total = n.a_size * n.a_size
              ELSE report.similarity.matching = 0

C13_Witness ==
    /\ sweep = "compare" /\ pc = "done"
    /\ report.comparator = "exact_matcher"
    /\ reference.img.size > ImageSide(report.other.version, report.other.box_size,
                                      report.other.border)
    /\ report.similarity.matching > 0
    /\ report.similarity.matching < report.similarity.total

\* C14 as stated: the result of a comparator is within [0,100], and it is 100
\* exactly when the two rasters agree at every pixel after both are binarized
\* at the threshold of 128.
C14_HundredIffBinarizedEqual ==
    (sweep = "gray" /\ pc = "done") =>
        LET n == Nearest
        IN /\ report.similarity.matching >= 0
           /\ report.similarity.matching <= report.similarity.total
           /\ report.similarity.total > 0
           /\ (report.similarity.matching = report.similarity.total)
                 = (n.matching = n.a_size * n.a_size)

\* C14: the result of a comparator is within [0,100]; compare_qr_images of
\* qr_brute_matcher.py returns 100 exactly when the rasters agree at every
\* pixel after the threshold of 128; QRPerfectCloner.compare_images and
\* create_comparison_image do not binarize and return 100 exactly when the
\* gray levels are equal at every pixel.
C14_HundredIffEqual ==
    (sweep = "gray" /\ pc = "done") =>
        LET n == Nearest
        IN /\ report.similarity.matching >= 0
           /\ report.similarity.matching <= report.similarity.total
           /\ report.similarity.total > 0
           /\ (report.similarity.matching = report.similarity.total)
                 = IF report.comparator = "brute_matcher"
                   THEN n.matching = n.a_size * n.a_size
                   ELSE n.identical = n.a_size * n.a_size

C14_Witness ==
    /\ sweep = "gray" /\ pc = "done"
    /\ report.comparator = "brute_matcher"
    /\ report.dark = 100
    /\ report.similarity.matching = report.similarity.total

-----------------------------------------------------------------------------
(* Properties of decoding.                                                 *)

\* C15: decoding rejects every string whose length is not 18 or whose
\* characters 5 to 12 are not a valid MMDDYYYY calendar date, and returns the
\* fields for every other payload.
C15_RejectsMalformed ==
    pc = "decoded" =>
        LET date == Slice(qr_data, 4, 12)
            malformed ==
                \/ Len(qr_data) # 18
                \/ \E k \in 1..8 : date[k] \notin DigitSet
                \/ ~ValidDate(IntOf(Slice(date, 4, 8)), IntOf(Slice(date, 0, 2)),
                              IntOf(Slice(date, 2, 4)))
            rejected == IF report = None THEN parsed = None ELSE ~report.accepted
        IN rejected = malformed

-----------------------------------------------------------------------------
(* Properties of the corpus aggregators.                                   *)

C17_DemotedByNonConforming ==
    (sweep \in {"analyzer", "simple"} /\ idx >= 1 /\ report # None) =>
        LET dated == {f \in reference :
                         /\ Len(f.name) \in {16, 18}
                         /\ \A k \in 1..12 : f.name[k] \in DigitSet
                         /\ ValidDateTime(StrpStem(f.name))}
            failing == {f \in dated : f.content # predict_qr_data(StrpStem(f.name))}
        IN report.pattern_confirmed = (failing = {})

\* C18: in a batch over a directory a sample whose filename is not a valid
\* date-time is skipped while every other sample is processed, and no
\* sample's failure aborts the batch.
C18_FailureNeverAborts ==
    (sweep \in {"database", "analyzer"} /\ idx >= 1) =>
        /\ exc = "none"
        /\ report # None
        /\ LET recorded == IF sweep = "database"
                           THEN {report.files[k].filename : k \in 1..Len(report.files)}
                           ELSE {report.predictions[k].filename :
                                    k \in 1..Len(report.predictions)}
           IN \A f \in reference :
                 (/\ Len(f.name) = 16
                  /\ \A k \in 1..12 : f.name[k] \in DigitSet
                  /\ ValidDateTime(StrpStem(f.name))) => f.name \in recorded

\* C19: every capture file named YYYYMMDDHHMM.svg or YYYYMMDDHHMMSS.svg with a
\* valid date-time yields exactly one sample record carrying that timestamp,
\* and the corpus total is the number of such files.
C19_OneRecordPerCapture ==
    (sweep \in {"database", "analyzer"} /\ idx >= 1 /\ report # None) =>
        LET captures == {f \in reference :
                            /\ Len(f.name) \in {16, 18}
                            /\ \A k \in 1..(Len(f.name) - 4) : f.name[k] \in DigitSet
                            /\ ValidDateTime(StrpStem(f.name))}
            records == IF sweep = "database" THEN report.files ELSE report.predictions
            total == IF sweep = "database" THEN report.metadata.total_files
                     ELSE report.files_analyzed
        IN /\ total = Cardinality(captures)
           /\ \A f \in captures :
                 Cardinality({k \in 1..Len(records) :
                                 /\ records[k].filename = f.name
                                 /\ records[k].datetime = IsoFormat(StrpStem(f.name))}) = 1

-----------------------------------------------------------------------------
\* C21: for every set of samples, the date range an aggregator reports has as
\* its earliest/min the chronologically earliest sample date-time and as its
\* latest/max the chronologically latest one (for the pattern analysis, whose
\* range is one of dates, their dates).
C21_ChronologicalRange ==
    (idx >= 1 /\ report # None) =>
        LET samples == {StrpStem(f.name) :
                           f \in {g \in reference :
                                     /\ Len(g.name) = 16
                                     /\ \A k \in 1..12 : g.name[k] \in DigitSet
                                     /\ ValidDateTime(StrpStem(g.name))}}
            earliest == CHOOSE d \in samples : \A e \in samples : ~Before(e, d)
            latest == CHOOSE d \in samples : \A e \in samples : ~Before(d, e)
        IN samples # {} =>
              CASE sweep = "database" ->
                     report.metadata.date_range
                        = [earliest |-> IsoFormat(earliest), latest |-> IsoFormat(latest)]
                [] sweep = "analyzer" ->
                     report.date_range
                        = [min |-> IsoFormat(earliest), max |-> IsoFormat(latest)]
                [] sweep = "simple" ->
                     report.date_range
                        = [min |-> StrfMDY(earliest), max |-> StrfMDY(latest)]

\* C30: aggregating a directory that holds no parseable capture file
\* completes normally and yields a corpus with a total of 0 files and a null
\* date range.
C30_EmptyCorpusCompletes ==
    (sweep \in {"database", "analyzer"} /\ idx >= 1
     /\ \A f \in reference :
           ~(/\ Len(f.name) = 16
             /\ \A k \in 1..12 : f.name[k] \in DigitSet
             /\ ValidDateTime(StrpStem(f.name))))
        => /\ exc = "none"
           /\ report # None
           /\ IF sweep = "database"
              THEN /\ report.metadata.total_files = 0
                   /\ report.metadata.date_range = [earliest |-> None, latest |-> None]
              ELSE /\ report.files_analyzed = 0
                   /\ report.date_range = [min |-> None, max |-> None]

-----------------------------------------------------------------------------
(* Properties of the seeding of the parameters.                            *)

\* C23: the seeding step estimates the module size as the length of the
\* first dark run of the QR region's first row divided by 7 and rounded
\* down, never less than 1, the module count as the width of the dark
\* bounding box divided by the module size and rounded down, and the version
\* as the module count minus 17, divided by 4 and rounded down.
C23_SeedEstimates ==
    (sweep \in {"deep", "clone", "exact"} /\ structure # None) =>
        LET Estimated(b) ==
                LET run == FirstRun(reference.img, 0..127, b.min_y, b.min_x, b.max_x)
                    module_size == IF run \div 7 < 1 THEN 1 ELSE run \div 7
                    modules == (b.max_x - b.min_x + 1) \div module_size
                IN /\ structure.module_size = module_size
                   /\ structure.modules = modules
                   /\ structure.version = (modules - 17) \div 4
        IN Estimated(DarkBounds(reference.img, 0..127))

\* C26: every parameter set derived from a reference raster, each candidate
\* of the search grid and the parameters of the clone, has a module size of
\* at least 1 and a quiet zone of at least 0, and deriving the quiet zone in
\* modules never divides by zero.
C26_ModuleSizePositive ==
    /\ exc # "ZeroDivisionError"
    /\ sweep = "exact" =>
          \A k \in 1..Len(grid) : grid[k].box_size >= 1 /\ grid[k].border >= 0
    /\ (sweep = "clone" /\ structure # None) =>
          structure.module_size >= 1 /\ structure.quiet_zone >= 0
    /\ (sweep = "clone" /\ best_match # None) =>
          best_match.box_size >= 1 /\ best_match.border >= 0

-----------------------------------------------------------------------------
(* Properties of the reference extraction.                                 *)

\* C20: when a capture has neither a base64 PNG data URI nor a dark rect, or
\* its base64 data does not decode to an image, the extraction reports a
\* failure and gives no raster.
C20_FailureAndNoRaster ==
    (pc = "done"
     /\ \/ reference.png = None /\ \A r \in reference.rects : r.color # "000000"
        \/ reference.png # None /\ ~reference.png.decodes)
        => (exc # "none" /\ report = None)

\* C25: rasterizing a native SVG paints each dark rect as exactly width x
\* height pixels at (x, y), and the raster of the native SVG generated for a
\* payload is the raster of the payload rendered directly with the same
\* version, level, module size and quiet zone.
C25_RasterOfNativeSVG ==
    (pc = "done" /\ reference.png = None) =>
        /\ exc = "none" /\ report # None
        /\ report.black
              = UNION {{p \in (r.x..(r.x + r.w - 1)) \X (r.y..(r.y + r.h - 1)) :
                           p[1] < report.size /\ p[2] < report.size} :
                       r \in {q \in reference.rects : q.color = "000000"}}
        /\ "data" \in DOMAIN reference =>
              /\ report.size = ImageSide(1, 20, 4)
              /\ report.black
                    = {p \in (0..(report.size - 1)) \X (0..(report.size - 1)) :
                          MakeImage(reference.data, 1, "Q", 20, 4).px[p[2]][p[1]] = 0}

-----------------------------------------------------------------------------
(* Properties of the hourly monitor.                                       *)

\* C27: a collection attempt that fails after the comparison, saving no
\* sample and returning no result, leaves last_hash, change_count and
\* total_samples as they were before the attempt, and after any sequence of
\* attempts change_count is the number of saved samples whose hash differs
\* from the hash of the sample saved before them.
C27_FailedAttemptKeepsState ==
    (sweep = "monitor" /\ idx >= 1) =>
        /\ (report.result = None /\ report.compared) => structure = report.before
        /\ structure.change_count
              = Cardinality({k \in 2..Len(evaluated) : evaluated[k] # evaluated[k - 1]})

\* C28: after any sequence of update_analysis_log calls the log holds at
\* most 100 entries, and they are the results passed most recently, in the
\* order in which they were passed.
C28_LogKeepsLatest ==
    (sweep = "log" /\ evaluated # <<>>) =>
        /\ Len(structure.entries) <= 100
        /\ Len(structure.entries) = IF Len(evaluated) < 100 THEN Len(evaluated) ELSE 100
        /\ \A k \in 1..Len(structure.entries) :
              structure.entries[k]
                  = evaluated[Len(evaluated) - Len(structure.entries) + k]

\* more than 100 results were logged
C28_Witness ==
    /\ sweep = "log" /\ Len(evaluated) > 100
    /\ Len(structure.entries) = 100
    /\ structure.entries[100] = evaluated[Len(evaluated)]
=============================================================================
